---------------------------- MODULE Spec2Model ----------------------------
(***************************************************************************)
(* A model of the hybrid search engine of trie-semantic-search:            *)
(*   src/src/trie.rs    TrieIndex and its three sub-tries                  *)
(*   src/src/vector.rs  VectorIndex (embedding cache, HNSW index)          *)
(*   src/src/search.rs  SearchEngine and its QueryCache                    *)
(*                                                                         *)
(* Text is a sequence of one-character strings, so that str::len,          *)
(* split_whitespace and to_lowercase are computed and not assumed.         *)
(* Scores, similarities and distances are hundredths (2.0 is 200).         *)
(* Time is counted in ticks, TicksPerSecond to the second, so that         *)
(* DateTime::timestamp() (whole seconds) is a real conversion.             *)
(***************************************************************************)
EXTENDS Integers, Sequences, FiniteSets, TLC

VARIABLES
    trie_index,     \* TrieIndex: the three sub-tries' root nodes
    insert_log,     \* history: how often each index insertion was performed
    trie_ret,       \* history: the last TrieIndex::search call and its result
    ann_impl,       \* "stub": embedding model and HNSW index as src/ has them;
                    \* "spec": as spec.md 4.2 describes them
    hnsw_index,     \* HnswIndex contents ("spec" only: the stub stores nothing)
    vector_cache,   \* VectorIndex.vector_cache: text -> embedding
    query_cache,    \* QueryCache: [cache: text -> CachedResult, max_size]
    now,            \* the wall clock, in ticks
    config,         \* Config.search, fixed at construction
    call,           \* observation: the engine or cache call that has just returned;
                    \* in SpecConc, every caller's position and locals
    ret,            \* observation: what that call returned (SpecConc: per caller)
    trace           \* observation: what that call acquired and invoked;
                    \* in SpecConc, the state of the engine's RwLocks

vars == <<trie_index, insert_log, trie_ret, ann_impl, hnsw_index,
          vector_cache, query_cache, now, config, call, ret, trace>>

trieVars   == <<trie_index, insert_log, trie_ret>>
vectorVars == <<ann_impl, hnsw_index, vector_cache>>
engineVars == <<query_cache, now, config, call, ret, trace>>

(***************************************************************************)
(* Bounds of the model.                                                    *)
(***************************************************************************)
MaxInserts == 2         \* index insertions in one behaviour
MaxTime == 3            \* the clock stops after this many ticks
MaxCacheSize == 2       \* QueryCache::new(max_size) is tried for 0..MaxCacheSize
TicksPerSecond == 2     \* resolution of the modelled clock
MaxQueryChars == 3      \* length of the texts given to is_valid_search_query
MaxConcurrentJobs == 2  \* config.max_concurrent_jobs of the ingestion pipeline

\* Option<T>: None is the empty set, Some(x) the singleton of x.
None == {}
Some(x) == {x}
IsSome(o) == o # {}
Unwrap(o) == CHOOSE x \in o : TRUE

EmptyMap == [x \in {} |-> x]

(***************************************************************************)
(* Text: str::len, char::is_whitespace, str::to_lowercase,                 *)
(* str::split_whitespace, [String]::join.                                  *)
(***************************************************************************)
str_len(s) == Len(s)

is_whitespace(c) == c = " "

char_to_lowercase(c) ==
    CASE c = "A" -> "a"
      [] c = "B" -> "b"
      [] OTHER -> c

to_lowercase(s) == [i \in 1..Len(s) |-> char_to_lowercase(s[i])]

RECURSIVE SplitFrom(_, _, _, _)
SplitFrom(s, i, cur, acc) ==
    IF i > Len(s)
    THEN IF cur = <<>> THEN acc ELSE Append(acc, cur)
    ELSE IF is_whitespace(s[i])
         THEN SplitFrom(s, i + 1, <<>>, IF cur = <<>> THEN acc ELSE Append(acc, cur))
         ELSE SplitFrom(s, i + 1, Append(cur, s[i]), acc)

split_whitespace(s) == SplitFrom(s, 1, <<>>, <<>>)

MapSeq(f(_), s) == [i \in 1..Len(s) |-> f(s[i])]

RECURSIVE join(_, _)
join(tokens, sep) ==
    IF tokens = <<>> THEN <<>>
    ELSE IF Len(tokens) = 1 THEN tokens[1]
    ELSE tokens[1] \o sep \o join(Tail(tokens), sep)

(***************************************************************************)
(* DocRef (src/src/lib.rs).                                                *)
(***************************************************************************)
DocRef(case_id, paragraph_index, char_offset) ==
    [case_id |-> case_id, paragraph_index |-> paragraph_index,
     char_offset |-> char_offset]

(***************************************************************************)
(* TrieNode (src/src/trie.rs).                                             *)
(***************************************************************************)
TrieNode_new ==
    [children |-> EmptyMap, is_end_of_word |-> FALSE,
     document_refs |-> <<>>, frequency |-> 0]

\* frequency += 1 on a u32; u32::MAX insertions at one node are beyond any
\* bounded run, so the counter is an unbounded natural here.
FrequencyNoIncrement(f) == f
FrequencyIncrement(f) == f + 1

TerminalNoFlag(node, doc_ref) ==
    [node EXCEPT !.document_refs = Append(@, doc_ref),
                 !.frequency = FrequencyIncrement(@)]
MarkTerminalOnce(node, doc_ref) ==
    [node EXCEPT !.is_end_of_word = TRUE,
                 !.document_refs = IF \E i \in DOMAIN @ : @[i] = doc_ref
                                   THEN @ ELSE Append(@, doc_ref),
                 !.frequency = FrequencyIncrement(@)]
MarkTerminal(node, doc_ref) ==
    [node EXCEPT !.is_end_of_word = TRUE,
                 !.document_refs = Append(@, doc_ref),
                 !.frequency = FrequencyIncrement(@)]

RECURSIVE TrieNode_insert(_, _, _)
TrieNode_insert(node, tokens, doc_ref) ==
    IF tokens = <<>>
    THEN MarkTerminal(node, doc_ref)
    ELSE LET token == Head(tokens)
             child == IF token \in DOMAIN node.children
                      THEN node.children[token]
                      ELSE TrieNode_new
             rest  == [t \in DOMAIN node.children \ {token} |-> node.children[t]]
         IN  [node EXCEPT !.children =
                 (token :> TrieNode_insert(child, Tail(tokens), doc_ref)) @@ rest]

\* The iteration order of a HashMap is unspecified: `ord` lists every token in
\* the order one iteration yields them.
ChildrenInOrder(node, ord) == SelectSeq(ord, LAMBDA t : t \in DOMAIN node.children)

RECURSIVE PushChildren(_, _, _, _)
PushChildren(stack, current, path, toks) ==
    IF toks = <<>> THEN stack
    ELSE PushChildren(
            Append(stack, <<current.children[Head(toks)], Append(path, Head(toks))>>),
            current, path, Tail(toks))

CompletionAcceptedWithSelf(current, path, prefix) ==
    current.is_end_of_word /\ Len(path) >= Len(prefix)
\* if current.is_end_of_word && path.len() > prefix.len()
CompletionAccepted(current, path, prefix) ==
    current.is_end_of_word /\ Len(path) > Len(prefix)

RECURSIVE CollectLoop(_, _, _, _, _)
CollectLoop(stack, completions, prefix, limit, ord) ==
    IF stack = <<>> THEN completions
    ELSE LET top     == stack[Len(stack)]
             current == top[1]
             path    == top[2]
             popped  == SubSeq(stack, 1, Len(stack) - 1)
         IN  IF Len(completions) >= limit THEN completions
             ELSE CollectLoop(
                    PushChildren(popped, current, path, ChildrenInOrder(current, ord)),
                    IF CompletionAccepted(current, path, prefix)
                    THEN Append(completions, join(path, <<" ">>))
                    ELSE completions,
                    prefix, limit, ord)

collect_completions(node, prefix, limit, ord) ==
    CollectLoop(<< <<node, prefix>> >>, <<>>, prefix, limit, ord)

CompletionLimit == 10

EmptyTrieSearchResult ==
    [exact_matches |-> <<>>, prefix_completions |-> <<>>, total_matches |-> 0]

\* The walk of TrieNode::search: the node the tokens lead to, or None.
RECURSIVE Walk(_, _)
Walk(node, tokens) ==
    IF tokens = <<>> THEN Some(node)
    ELSE IF Head(tokens) \in DOMAIN node.children
         THEN Walk(node.children[Head(tokens)], Tail(tokens))
         ELSE None

\* What TrieNode::search builds once the walk has ended at `current`.
FoundResult(current, tokens, ord) ==
    LET exact_matches == IF current.is_end_of_word
                         THEN current.document_refs
                         ELSE <<>>
        prefix_completions ==
            collect_completions(current, tokens, CompletionLimit, ord)
    IN  [exact_matches |-> exact_matches,
         prefix_completions |-> prefix_completions,
         total_matches |-> Len(exact_matches) + Len(prefix_completions)]

RECURSIVE WalkWhilePresent(_, _)
WalkWhilePresent(node, tokens) ==
    IF tokens = <<>> \/ Head(tokens) \notin DOMAIN node.children THEN node
    ELSE WalkWhilePresent(node.children[Head(tokens)], Tail(tokens))

MissBreaksLoop(root, tokens, ord) ==
    FoundResult(WalkWhilePresent(root, tokens), tokens, ord)
\* The early return of the walk: "No matches found".
MissResult(root, tokens, ord) == EmptyTrieSearchResult

TrieNode_search(root, tokens, ord) ==
    LET walked == Walk(root, tokens)
    IN  IF walked = None
        THEN MissResult(root, tokens, ord)
        ELSE FoundResult(Unwrap(walked), tokens, ord)

(***************************************************************************)
(* CaseNameTrie, ContentTrie, CitationTrie: each is its root node.         *)
(***************************************************************************)
CaseNameTokensRaw(case_name) == split_whitespace(case_name)
CaseNameTokens(case_name) == MapSeq(to_lowercase, split_whitespace(case_name))

CaseNameTrie_insert(root, case_name, case_id) ==
    TrieNode_insert(root, CaseNameTokens(case_name), DocRef(case_id, 0, None))

CaseNameTrie_search(root, query, ord) ==
    TrieNode_search(root, MapSeq(to_lowercase, split_whitespace(query)), ord)

ContentTrie_insert(root, tokens, doc_ref) ==
    TrieNode_insert(root, MapSeq(to_lowercase, tokens), doc_ref)

ContentTrie_search_tokens(root, tokens, ord) ==
    TrieNode_search(root, MapSeq(to_lowercase, tokens), ord)

CitationTrie_insert_Lowercased(root, citation, doc_ref) ==
    TrieNode_insert(root, MapSeq(to_lowercase, split_whitespace(citation)), doc_ref)
CitationTrie_insert(root, citation, doc_ref) ==
    TrieNode_insert(root, split_whitespace(citation), doc_ref)

CitationTrie_search(root, query, ord) ==
    TrieNode_search(root, split_whitespace(query), ord)

(***************************************************************************)
(* TrieIndex.                                                              *)
(***************************************************************************)
TrieIndex_new ==
    [case_name_trie |-> TrieNode_new, content_trie |-> TrieNode_new,
     citation_trie |-> TrieNode_new]

Ok(v) == [tag |-> "Ok", value |-> v]
Err(e) == [tag |-> "Err", error |-> e]

TrieIndex_search_AnyMatch(ti, query, ord) ==
    LET by_name     == CaseNameTrie_search(ti.case_name_trie, query, ord)
        by_citation == CitationTrie_search(ti.citation_trie, query, ord)
    IN  IF by_name.total_matches # 0 THEN Ok(by_name)
        ELSE IF by_citation.total_matches # 0 THEN Ok(by_citation)
        ELSE Ok(ContentTrie_search_tokens(ti.content_trie, split_whitespace(query), ord))
TrieIndex_search(ti, query, ord) ==
    LET by_name     == CaseNameTrie_search(ti.case_name_trie, query, ord)
        by_citation == CitationTrie_search(ti.citation_trie, query, ord)
    IN  IF by_name.exact_matches # <<>> THEN Ok(by_name)
        ELSE IF by_citation.exact_matches # <<>> THEN Ok(by_citation)
        ELSE Ok(ContentTrie_search_tokens(ti.content_trie, split_whitespace(query), ord))

(***************************************************************************)
(* Inputs of the trie operations.                                          *)
(***************************************************************************)
CaseIds == {1, 2, 3}

TrieCaseIds == {1, 2}
TrieCaseNames == { <<"A", " ", "b">>, <<"a">>, <<" ">> }
TrieCitations == { <<"A", " ", "b">>, <<"B">> }
TrieContents  == { << <<"A">>, <<"b">> >>, << <<"a">> >> }
TrieDocRefs   == { DocRef(1, 0, None), DocRef(2, 1, Some(0)) }
TrieQueries   == { <<"a", " ", "b">>, <<"A", " ", "B">>, <<"A", " ", "b">>,
                   <<"a">>, <<"A">>, <<"B">>, <<"b", " ", "a">>, <<" ">>,
                   <<"a", " ", "b", " ", "a">> }

AllTokens == { <<"a">>, <<"b">>, <<"A">>, <<"B">> }
ChildOrders == { << <<"a">>, <<"b">>, <<"A">>, <<"B">> >>,
                 << <<"B">>, <<"A">>, <<"b">>, <<"a">> >> }

(***************************************************************************)
(* The insertion log (history): per kind of insertion, its arguments ->    *)
(* the number of times it was performed; and per sub-trie the insertions   *)
(* in the order they were performed.                                       *)
(***************************************************************************)
LogOp(arg, doc_ref) == [arg |-> arg, doc_ref |-> doc_ref]

EmptyLog == [case_name |-> EmptyMap, content |-> EmptyMap, citation |-> EmptyMap,
             document |-> EmptyMap,
             order |-> [case_name |-> <<>>, content |-> <<>>, citation |-> <<>>]]

Logged(log, op) == IF op \in DOMAIN log THEN log[op] ELSE 0

LogAdd(log, op) ==
    (op :> Logged(log, op) + 1) @@ [o \in DOMAIN log \ {op} |-> log[o]]

RECURSIVE SumCounts(_, _)
SumCounts(log, ops) ==
    IF ops = {} THEN 0
    ELSE LET o == CHOOSE x \in ops : TRUE
         IN  log[o] + SumCounts(log, ops \ {o})

LogSize(log) ==
    SumCounts(log.case_name, DOMAIN log.case_name)
    + SumCounts(log.content, DOMAIN log.content)
    + SumCounts(log.citation, DOMAIN log.citation)
    + SumCounts(log.document, DOMAIN log.document)

(***************************************************************************)
(* The trie operations as actions.                                         *)
(***************************************************************************)
TrieInit ==
    /\ trie_index = TrieIndex_new
    /\ insert_log = EmptyLog
    /\ trie_ret = [op |-> "none"]

InsertCaseName(case_name, case_id) ==
    /\ LogSize(insert_log) < MaxInserts
    /\ trie_index' = [trie_index EXCEPT !.case_name_trie =
                         CaseNameTrie_insert(@, case_name, case_id)]
    /\ insert_log' = [insert_log EXCEPT
                         !.case_name = LogAdd(@, LogOp(case_name, DocRef(case_id, 0, None))),
                         !.order.case_name =
                             Append(@, LogOp(case_name, DocRef(case_id, 0, None)))]
    /\ UNCHANGED trie_ret

InsertContent(tokens, doc_ref) ==
    /\ LogSize(insert_log) < MaxInserts
    /\ trie_index' = [trie_index EXCEPT !.content_trie =
                         ContentTrie_insert(@, tokens, doc_ref)]
    /\ insert_log' = [insert_log EXCEPT
                         !.content = LogAdd(@, LogOp(tokens, doc_ref)),
                         !.order.content = Append(@, LogOp(tokens, doc_ref))]
    /\ UNCHANGED trie_ret

InsertCitation(citation, doc_ref) ==
    /\ LogSize(insert_log) < MaxInserts
    /\ trie_index' = [trie_index EXCEPT !.citation_trie =
                         CitationTrie_insert(@, citation, doc_ref)]
    /\ insert_log' = [insert_log EXCEPT
                         !.citation = LogAdd(@, LogOp(citation, doc_ref)),
                         !.order.citation = Append(@, LogOp(citation, doc_ref))]
    /\ UNCHANGED trie_ret

\* TrieIndex::search takes &self: the index is read, never written.
TrieSearch(query, ord) ==
    /\ trie_ret' = [op |-> "search", query |-> query,
                    result |-> TrieIndex_search(trie_index, query, ord)]
    /\ UNCHANGED <<trie_index, insert_log>>

(***************************************************************************)
(* SpecTrie: the trie index alone, under every bounded sequence of         *)
(* insertions and searches.                                                *)
(***************************************************************************)
IdleVector ==
    /\ ann_impl = "stub"
    /\ hnsw_index = <<>>
    /\ vector_cache = EmptyMap

\* No call has just returned: call, ret and trace describe the call of the
\* last step and are cleared by every step that is not a call.
NoCall ==
    /\ call = [op |-> "none"]
    /\ ret = [op |-> "none"]
    /\ trace = [op |-> "none"]

ClearCall ==
    /\ call' = [op |-> "none"]
    /\ ret' = [op |-> "none"]
    /\ trace' = [op |-> "none"]

IdleEngine ==
    /\ query_cache = [cache |-> EmptyMap, max_size |-> 0]
    /\ now = 0
    /\ config = [op |-> "none"]
    /\ NoCall

InitTrie == TrieInit /\ IdleVector /\ IdleEngine

NextTrie ==
    \/ \E n \in TrieCaseNames, id \in TrieCaseIds :
          InsertCaseName(n, id) /\ UNCHANGED <<vectorVars, engineVars>>
    \/ \E t \in TrieContents, d \in TrieDocRefs :
          InsertContent(t, d) /\ UNCHANGED <<vectorVars, engineVars>>
    \/ \E c \in TrieCitations, d \in TrieDocRefs :
          InsertCitation(c, d) /\ UNCHANGED <<vectorVars, engineVars>>
    \/ \E q \in TrieQueries, ord \in ChildOrders :
          TrieSearch(q, ord) /\ UNCHANGED <<vectorVars, engineVars>>

SpecTrie == InitTrie /\ [][NextTrie]_vars

(***************************************************************************)
(* Helpers of the trie properties.                                         *)
(***************************************************************************)
RECURSIVE NodesUnder(_, _)
NodesUnder(node, path) ==
    {[path |-> path, node |-> node]}
    \cup UNION { NodesUnder(node.children[t], Append(path, t)) :
                 t \in DOMAIN node.children }

SubTries == {"case_name", "content", "citation"}

SubTrieRoot(kind) ==
    CASE kind = "case_name" -> trie_index.case_name_trie
      [] kind = "content"   -> trie_index.content_trie
      [] kind = "citation"  -> trie_index.citation_trie

\* The token path an insertion of `kind` with argument `arg` ends at.
InsertedTokens(kind, arg) ==
    CASE kind = "case_name" -> CaseNameTokens(arg)
      [] kind = "content"   -> MapSeq(to_lowercase, arg)
      [] kind = "citation"  -> split_whitespace(arg)

InsertionsEndingAt(kind, path) ==
    LET log == insert_log[kind]
    IN  SumCounts(log, {op \in DOMAIN log : InsertedTokens(kind, op.arg) = path})

Prefixes(s) == { SubSeq(s, 1, k) : k \in 0..Len(s) }

InsertedPaths(kind) ==
    UNION { Prefixes(InsertedTokens(kind, op.arg)) : op \in DOMAIN insert_log[kind] }

ProbeTokens ==
    UNION { {split_whitespace(q), MapSeq(to_lowercase, split_whitespace(q))} :
            q \in TrieQueries }

\* q and name differ at most in the letter case of their characters.
IsCaseVariant(q, name) ==
    /\ Len(q) = Len(name)
    /\ \A i \in 1..Len(q) : char_to_lowercase(q[i]) = char_to_lowercase(name[i])

CaseIdsOf(doc_refs) == { doc_refs[i].case_id : i \in DOMAIN doc_refs }

(***************************************************************************)
(* C8. In each of the three sub-tries every node is terminal exactly when  *)
(* it carries at least one DocRef, and its frequency is the number of      *)
(* insertions whose token path ended at it, which is the length of its     *)
(* DocRef list.                                                            *)
(***************************************************************************)
C8_TerminalIffDocRefs ==
    \A kind \in SubTries :
        \A pn \in NodesUnder(SubTrieRoot(kind), <<>>) :
            /\ pn.node.is_end_of_word <=> Len(pn.node.document_refs) >= 1
            /\ pn.node.frequency = InsertionsEndingAt(kind, pn.path)
            /\ pn.node.frequency = Len(pn.node.document_refs)

\* Two insertions ended at one node of a sub-trie that also has an inner,
\* non-terminal node.
C8_Witness ==
    \E kind \in SubTries :
        /\ \E pn \in NodesUnder(SubTrieRoot(kind), <<>>) : pn.node.frequency = 2
        /\ \E pn \in NodesUnder(SubTrieRoot(kind), <<>>) :
              pn.path # <<>> /\ ~pn.node.is_end_of_word

(***************************************************************************)
(* C9. Once insert_case_name(name, X) has been performed, TrieIndex.search *)
(* of any letter-case variant of name returns Ok with a DocRef of case X   *)
(* among its exact_matches, whatever else was inserted.                    *)
(***************************************************************************)
C9_CaseNameRoundTrip ==
    \A op \in DOMAIN insert_log.case_name :
        \A q \in TrieQueries \cup TrieCaseNames :
            IsCaseVariant(q, op.arg) =>
                \A ord \in ChildOrders :
                    LET r == TrieIndex_search(trie_index, q, ord)
                    IN  /\ r.tag = "Ok"
                        /\ op.doc_ref.case_id \in CaseIdsOf(r.value.exact_matches)

\* A search was made with a variant that differs from the inserted name, with
\* a citation of the same text in the index as well.
C9_Witness ==
    /\ trie_ret.op = "search"
    /\ DOMAIN insert_log.citation # {}
    /\ \E op \in DOMAIN insert_log.case_name :
          /\ IsCaseVariant(trie_ret.query, op.arg)
          /\ trie_ret.query # op.arg
          /\ op.doc_ref.case_id \in CaseIdsOf(trie_ret.result.value.exact_matches)

(***************************************************************************)
(* C10. A token sequence that is not a path of a sub-trie (no insertion    *)
(* into it has the sequence as a prefix of its tokens) is answered with    *)
(* empty exact_matches, empty prefix_completions and total_matches 0; a    *)
(* search returns Ok, and no search step changes the trie.                 *)
(***************************************************************************)
C10_MissIsEmpty ==
    /\ \A kind \in SubTries, tokens \in ProbeTokens, ord \in ChildOrders :
          tokens \notin InsertedPaths(kind) =>
              TrieNode_search(SubTrieRoot(kind), tokens, ord) = EmptyTrieSearchResult
    /\ trie_ret.op = "search" => trie_ret.result.tag = "Ok"

C10_TrieUnchanged == trie_ret' # trie_ret => trie_index' = trie_index

C10_TrieMiss == []C10_MissIsEmpty /\ [][C10_TrieUnchanged]_vars

\* A search missed in a non-empty index: its first token is present in a
\* sub-trie, a later one is not.
C10_Witness ==
    /\ trie_ret.op = "search"
    /\ trie_ret.result.value = EmptyTrieSearchResult
    /\ \E kind \in SubTries :
          LET tokens == InsertedTokens(kind, IF kind = "content"
                                             THEN split_whitespace(trie_ret.query)
                                             ELSE trie_ret.query)
          IN  /\ Len(tokens) >= 2
              /\ SubSeq(tokens, 1, 1) \in InsertedPaths(kind)
              /\ tokens \notin InsertedPaths(kind)

(***************************************************************************)
(* QueryCache (src/src/search.rs).  An entry keeps the DateTime it was     *)
(* created at (in ticks); ages are taken between whole-second timestamps.  *)
(***************************************************************************)
\* DateTime::timestamp(): whole seconds since the epoch.
timestamp(t) == t \div TicksPerSecond

QueryCache_new(max_size) == [cache |-> EmptyMap, max_size |-> max_size]

LiveInclusive(age, ttl_seconds) == age <= ttl_seconds
LiveOffByOne(age, ttl_seconds) == age + 1 < ttl_seconds
\* age < cached.ttl_seconds as i64
Live(age, ttl_seconds) == age < ttl_seconds

QueryCache_get(qc, query, at) ==
    IF query \in DOMAIN qc.cache
    THEN LET cached == qc.cache[query]
             age    == timestamp(at) - timestamp(cached.timestamp)
         IN  IF Live(age, cached.ttl_seconds) THEN Some(cached.results) ELSE None
    ELSE None

\* self.cache.keys().next(): the first key of an unspecified iteration order,
\* None for an empty map.  Asked for only when len() >= max_size.
EvictionChoices(map, max_size) ==
    IF Cardinality(DOMAIN map) >= max_size
    THEN IF DOMAIN map = {} THEN {None} ELSE { Some(k) : k \in DOMAIN map }
    ELSE {None}

MapRemove(map, keys) == [k \in DOMAIN map \ keys |-> map[k]]

MapInsert(map, k, v) == (k :> v) @@ MapRemove(map, {k})

CachedResult(results, at, ttl_seconds) ==
    [results |-> results, timestamp |-> at, ttl_seconds |-> ttl_seconds]

\* `victim` is one of EvictionChoices(qc.cache, qc.max_size).
QueryCache_insert(qc, query, results, ttl_seconds, at, victim) ==
    [qc EXCEPT !.cache =
        MapInsert(MapRemove(@, victim), query, CachedResult(results, at, ttl_seconds))]

QueryCache_len(qc) == Cardinality(DOMAIN qc.cache)

(***************************************************************************)
(* SpecCache: a QueryCache alone, under every bounded sequence of get and  *)
(* insert calls and clock ticks.                                           *)
(***************************************************************************)
CacheKeys == { <<"a">>, <<"b">>, <<"a", " ", "b">> }
CacheResultLists == { <<>>, <<"r">> }
CacheTtls == {1, 2}

Tick ==
    /\ now < MaxTime
    /\ now' = now + 1
    /\ ClearCall
    /\ UNCHANGED <<query_cache, config>>

CacheGet(key) ==
    /\ call' = [op |-> "get", key |-> key, at |-> now]
    /\ ret' = QueryCache_get(query_cache, key, now)
    /\ trace' = [op |-> "none"]
    /\ UNCHANGED <<query_cache, now, config>>

CacheInsert(key, results, ttl_seconds) ==
    \E victim \in EvictionChoices(query_cache.cache, query_cache.max_size) :
        /\ query_cache' = QueryCache_insert(query_cache, key, results,
                                            ttl_seconds, now, victim)
        /\ call' = [op |-> "insert", key |-> key, at |-> now]
        /\ ret' = None
        /\ trace' = [op |-> "none"]
        /\ UNCHANGED <<now, config>>

InitCache ==
    /\ TrieInit
    /\ IdleVector
    /\ query_cache \in { QueryCache_new(n) : n \in 0..MaxCacheSize }
    /\ now = 0
    /\ config = [op |-> "none"]
    /\ NoCall

NextCache ==
    \/ Tick /\ UNCHANGED <<trieVars, vectorVars>>
    \/ \E k \in CacheKeys : CacheGet(k) /\ UNCHANGED <<trieVars, vectorVars>>
    \/ \E k \in CacheKeys, r \in CacheResultLists, t \in CacheTtls :
          CacheInsert(k, r, t) /\ UNCHANGED <<trieVars, vectorVars>>

SpecCache == InitCache /\ [][NextCache]_vars

(***************************************************************************)
(* C6 (as amended). QueryCache.get(key) returns the stored list exactly    *)
(* when an entry for key exists and the whole-second timestamps of now and *)
(* of its creation differ by less than its ttl; an entry whose age has     *)
(* reached its ttl is reported absent.                                     *)
(***************************************************************************)
C6_GetByWholeSeconds ==
    call.op = "get" =>
        LET c      == query_cache.cache
            exists == call.key \in DOMAIN c
        IN  /\ ret = IF /\ exists
                        /\ timestamp(call.at) - timestamp(c[call.key].timestamp)
                              < c[call.key].ttl_seconds
                     THEN Some(c[call.key].results)
                     ELSE None
            /\ ( /\ exists
                 /\ call.at - c[call.key].timestamp
                       >= c[call.key].ttl_seconds * TicksPerSecond )
               => ret = None

\* A get returned the list of an entry in the last whole second of its life,
\* created and read off the second boundary.
C6_Witness ==
    /\ call.op = "get"
    /\ call.key \in DOMAIN query_cache.cache
    /\ LET e == query_cache.cache[call.key]
       IN  /\ timestamp(call.at) - timestamp(e.timestamp) = e.ttl_seconds - 1
           /\ call.at - e.timestamp > (e.ttl_seconds - 1) * TicksPerSecond
           /\ ret = Some(e.results)

\* C6 as claimed: the stored list is returned exactly when the entry exists
\* and now - created_at < ttl.
C6_GetByElapsedTime ==
    call.op = "get" =>
        LET c == query_cache.cache
        IN  ret = IF /\ call.key \in DOMAIN c
                     /\ call.at - c[call.key].timestamp
                           < c[call.key].ttl_seconds * TicksPerSecond
                  THEN Some(c[call.key].results)
                  ELSE None

(***************************************************************************)
(* C7 as claimed: after any sequence of QueryCache.insert calls, for every *)
(* max_size, the cache holds at most max_size entries.                     *)
(***************************************************************************)
C7_SizeBounded == QueryCache_len(query_cache) <= query_cache.max_size

(***************************************************************************)
(* StorageManager::get_case_metadata (src/src/storage.rs): the stored      *)
(* cases.  Case 3 is indexed but has no metadata.                          *)
(***************************************************************************)
CaseMetadata(id, court, decision_date) ==
    [id |-> id, court |-> court, decision_date |-> decision_date]

StoredMetadata ==
    (1 :> CaseMetadata(1, "Supreme Court", 1)) @@
    (2 :> CaseMetadata(2, "Circuit Court", 2))

get_case_metadata(case_id) ==
    IF case_id \in DOMAIN StoredMetadata THEN Some(StoredMetadata[case_id]) ELSE None

(***************************************************************************)
(* VectorIndex (src/src/vector.rs).                                        *)
(***************************************************************************)
EmbeddingDimension == 768
VectorCacheMaxSize == 1000
VectorTopK == 50

\* EmbeddingModel::encode.  The stub returns vec![0.0; 768] for every text;
\* the embedding provider of spec.md is a function of the text, which stands
\* for its vector here.
EmbeddingModel_encode_stub(text) == [dimension |-> EmbeddingDimension, of |-> <<>>]
EmbeddingModel_encode_spec(text) == [dimension |-> EmbeddingDimension, of |-> text]
EmbeddingModel_encode(text) ==
    IF ann_impl = "stub" THEN EmbeddingModel_encode_stub(text)
    ELSE EmbeddingModel_encode_spec(text)

\* VectorIndex::generate_embedding: [embedding, the cache after the call,
\* the number of EmbeddingModel::encode invocations].
generate_embedding(cache, text, victim) ==
    IF text \in DOMAIN cache
    THEN [embedding |-> cache[text], cache |-> cache, encoded |-> 0]
    ELSE LET e == EmbeddingModel_encode(text)
         IN  [embedding |-> e,
              cache |-> MapInsert(MapRemove(cache, victim), text, e),
              encoded |-> 1]

\* HnswIndex::add_vector.  The stub stores nothing.
HnswIndex_add_vector_stub(index, doc_ref, embedding) == index
HnswIndex_add_vector_spec(index, doc_ref, embedding) ==
    Append(index, [doc_ref |-> doc_ref, embedding |-> embedding])
HnswIndex_add_vector(index, doc_ref, embedding) ==
    IF ann_impl = "stub" THEN HnswIndex_add_vector_stub(index, doc_ref, embedding)
    ELSE HnswIndex_add_vector_spec(index, doc_ref, embedding)

\* The distance of two embeddings (spec.md 4.2), in hundredths: 0 for the
\* same text, 20 for texts that differ in letter case only, 60 otherwise.
Distance(e1, e2) ==
    IF e1.of = e2.of THEN 0
    ELSE IF to_lowercase(e1.of) = to_lowercase(e2.of) THEN 20
    ELSE 60

RECURSIVE InsertByDistance(_, _)
InsertByDistance(sorted, n) ==
    IF sorted = <<>> THEN <<n>>
    ELSE IF Head(sorted)[2] <= n[2]
         THEN <<Head(sorted)>> \o InsertByDistance(Tail(sorted), n)
         ELSE <<n>> \o sorted

RECURSIVE NearestFirst(_, _, _)
NearestFirst(index, query_embedding, acc) ==
    IF index = <<>> THEN acc
    ELSE NearestFirst(Tail(index), query_embedding,
            InsertByDistance(acc, <<Head(index).doc_ref,
                                    Distance(query_embedding, Head(index).embedding)>>))

Take(s, n) == SubSeq(s, 1, IF Len(s) < n THEN Len(s) ELSE n)

\* HnswIndex::search: (doc_ref, distance) pairs.  The stub returns Vec::new().
HnswIndex_search_stub(index, query_embedding, top_k) == <<>>
HnswIndex_search_spec(index, query_embedding, top_k) ==
    Take(NearestFirst(index, query_embedding, <<>>), top_k)
HnswIndex_search(index, query_embedding, top_k) ==
    IF ann_impl = "stub" THEN HnswIndex_search_stub(index, query_embedding, top_k)
    ELSE HnswIndex_search_spec(index, query_embedding, top_k)

VectorSearchResult(doc_ref, similarity_score) ==
    [doc_ref |-> doc_ref, similarity_score |-> similarity_score, embedding |-> None]

\* similarity_score: 1.0 - distance
Similarity(distance) == 100 - distance

\* VectorIndex::search: [results, the embedding cache after the call, the
\* number of EmbeddingModel::encode invocations].
VectorIndex_search(cache, index, query, top_k, victim) ==
    LET g         == generate_embedding(cache, query, victim)
        neighbors == HnswIndex_search(index, g.embedding, top_k)
    IN  [results |-> [i \in 1..Len(neighbors) |->
                         VectorSearchResult(neighbors[i][1], Similarity(neighbors[i][2]))],
         cache   |-> g.cache,
         encoded |-> g.encoded]

VectorInit ==
    /\ ann_impl \in {"stub", "spec"}
    /\ hnsw_index = <<>>
    /\ vector_cache = EmptyMap

\* VectorIndex::add_document
AddDocument(doc_ref, text) ==
    /\ LogSize(insert_log) < MaxInserts
    /\ \E victim \in EvictionChoices(vector_cache, VectorCacheMaxSize) :
          LET g == generate_embedding(vector_cache, text, victim)
          IN  /\ vector_cache' = g.cache
              /\ hnsw_index' = HnswIndex_add_vector(hnsw_index, doc_ref, g.embedding)
    /\ insert_log' = [insert_log EXCEPT !.document = LogAdd(@, LogOp(text, doc_ref))]
    /\ UNCHANGED <<ann_impl, trie_index, trie_ret>>

(***************************************************************************)
(* SearchEngine (src/src/search.rs).                                       *)
(***************************************************************************)
SearchConfig(max_results, min_similarity, exact_match_weight, enable_semantic, enable_prefix) ==
    [max_results |-> max_results, min_similarity |-> min_similarity,
     exact_match_weight |-> exact_match_weight,
     enable_semantic |-> enable_semantic, enable_prefix |-> enable_prefix]

\* SearchConfig::default (src/src/lib.rs)
SearchConfig_default == SearchConfig(10, 50, 200, TRUE, TRUE)

SearchQuery(query, max_results, court_filter, date_range, cfg) ==
    [query |-> query, max_results |-> max_results, court_filter |-> court_filter,
     date_range |-> date_range, config |-> cfg]

\* Config.search (src/src/config.rs); search_timeout_ms defaults to 5000.
DefaultSearchTimeoutMs == 5000

SearchEngineConfig(enable_query_cache, query_cache_size, query_cache_ttl_seconds, min_query_length, max_query_length, search_timeout_ms) ==
    [enable_query_cache |-> enable_query_cache,
     search_timeout_ms |-> search_timeout_ms,
     query_cache_size |-> query_cache_size,
     query_cache_ttl_seconds |-> query_cache_ttl_seconds,
     min_query_length |-> min_query_length,
     max_query_length |-> max_query_length]

generate_snippet(doc_ref) ==
    <<"Snippet for case", doc_ref.case_id, "paragraph", doc_ref.paragraph_index>>

SearchResult(case_metadata, score, match_type, doc_ref) ==
    [case_metadata |-> case_metadata, score |-> score, match_type |-> match_type,
     snippet |-> generate_snippet(doc_ref), highlights |-> <<>>]

InvalidSearchQuery(query, reason) ==
    [kind |-> "InvalidSearchQuery", query |-> query, reason |-> reason]

NeverTooLong(len, max_query_length) == FALSE
QueryTooLong(len, max_query_length) == len > max_query_length

QueryTooShort(len, min_query_length) == len < min_query_length

validate_query(cfg, query) ==
    IF QueryTooShort(str_len(query.query), cfg.min_query_length)
    THEN Err(InvalidSearchQuery(query.query, "Query too short"))
    ELSE IF QueryTooLong(str_len(query.query), cfg.max_query_length)
    THEN Err(InvalidSearchQuery(query.query, "Query too long"))
    ELSE Ok(<<>>)

\* Stage 1 of execute_hybrid_search: the loop over trie_results.exact_matches.
\* acc is [all_results, seen_cases].
LexicalStepMarksSeen(acc, query, trie_result) ==
    LET md == get_case_metadata(trie_result.case_id)
    IN  IF trie_result.case_id \notin acc.seen_cases
        THEN [all_results |-> IF IsSome(md)
                              THEN Append(acc.all_results,
                                     SearchResult(Unwrap(md), query.config.exact_match_weight,
                                                  "Exact", trie_result))
                              ELSE acc.all_results,
              seen_cases  |-> acc.seen_cases \cup {trie_result.case_id}]
        ELSE acc
LexicalStep(acc, query, trie_result) ==
    LET md == get_case_metadata(trie_result.case_id)
    IN  IF IsSome(md) /\ trie_result.case_id \notin acc.seen_cases
        THEN [all_results |-> Append(acc.all_results,
                                SearchResult(Unwrap(md), query.config.exact_match_weight,
                                             "Exact", trie_result)),
              seen_cases  |-> acc.seen_cases \cup {trie_result.case_id}]
        ELSE acc

RECURSIVE LexicalLoop(_, _, _)
LexicalLoop(acc, query, exact_matches) ==
    IF exact_matches = <<>> THEN acc
    ELSE LexicalLoop(LexicalStep(acc, query, Head(exact_matches)), query,
                     Tail(exact_matches))

\* Stage 2: the loop over vector_results.
SemanticIgnoresSeen(acc, query, vector_result) ==
    LET md == get_case_metadata(vector_result.doc_ref.case_id)
    IN  IF /\ vector_result.similarity_score >= query.config.min_similarity
           /\ IsSome(md)
        THEN [all_results |-> Append(acc.all_results,
                                SearchResult(Unwrap(md), vector_result.similarity_score,
                                             "Semantic", vector_result.doc_ref)),
              seen_cases  |-> acc.seen_cases \cup {vector_result.doc_ref.case_id}]
        ELSE acc
SemanticStep(acc, query, vector_result) ==
    LET md == get_case_metadata(vector_result.doc_ref.case_id)
    IN  IF /\ vector_result.similarity_score >= query.config.min_similarity
           /\ IsSome(md)
           /\ vector_result.doc_ref.case_id \notin acc.seen_cases
        THEN [all_results |-> Append(acc.all_results,
                                SearchResult(Unwrap(md), vector_result.similarity_score,
                                             "Semantic", vector_result.doc_ref)),
              seen_cases  |-> acc.seen_cases \cup {vector_result.doc_ref.case_id}]
        ELSE acc

RECURSIVE SemanticLoop(_, _, _)
SemanticLoop(acc, query, vector_results) ==
    IF vector_results = <<>> THEN acc
    ELSE SemanticLoop(SemanticStep(acc, query, Head(vector_results)), query,
                      Tail(vector_results))

\* all_results.sort_by(|a, b| b.score.partial_cmp(&a.score)...): a stable
\* sort by descending score.
RECURSIVE InsertByScoreUnstable(_, _)
InsertByScoreUnstable(sorted, r) ==
    IF sorted = <<>> THEN <<r>>
    ELSE IF Head(sorted).score > r.score
         THEN <<Head(sorted)>> \o InsertByScoreUnstable(Tail(sorted), r)
         ELSE <<r>> \o sorted

RECURSIVE InsertByScore(_, _)
InsertByScore(sorted, r) ==
    IF sorted = <<>> THEN <<r>>
    ELSE IF Head(sorted).score >= r.score
         THEN <<Head(sorted)>> \o InsertByScore(Tail(sorted), r)
         ELSE <<r>> \o sorted

RECURSIVE SortByScore(_, _)
SortByScore(results, acc) ==
    IF results = <<>> THEN acc
    ELSE SortByScore(Tail(results), InsertByScore(acc, Head(results)))

sort_by_score(results) == SortByScore(results, <<>>)

apply_filters_ExclusiveDates(results, query) ==
    LET by_court ==
            IF IsSome(query.court_filter)
            THEN SelectSeq(results,
                     LAMBDA r : r.case_metadata.court \in Unwrap(query.court_filter))
            ELSE results
    IN  IF IsSome(query.date_range)
        THEN SelectSeq(by_court,
                 LAMBDA r : /\ r.case_metadata.decision_date > Unwrap(query.date_range)[1]
                            /\ r.case_metadata.decision_date < Unwrap(query.date_range)[2])
        ELSE by_court
apply_filters(results, query) ==
    LET by_court ==
            IF IsSome(query.court_filter)
            THEN SelectSeq(results,
                     LAMBDA r : r.case_metadata.court \in Unwrap(query.court_filter))
            ELSE results
    IN  IF IsSome(query.date_range)
        THEN SelectSeq(by_court,
                 LAMBDA r : /\ r.case_metadata.decision_date >= Unwrap(query.date_range)[1]
                            /\ r.case_metadata.decision_date <= Unwrap(query.date_range)[2])
        ELSE by_court

\* let max_results = query.max_results.unwrap_or(query.config.max_results)
ResultCap(query) ==
    IF IsSome(query.max_results) THEN Unwrap(query.max_results)
    ELSE query.config.max_results

truncate(results, len) == Take(results, len)

SemanticStageRunsAtCap(query, all_results) ==
    /\ query.config.enable_semantic
    /\ Len(all_results) <= query.config.max_results
\* if query.config.enable_semantic && all_results.len() < query.config.max_results
SemanticStageRuns(query, all_results) ==
    /\ query.config.enable_semantic
    /\ Len(all_results) < query.config.max_results

\* execute_hybrid_search: the list it returns, with the embedding cache after
\* the call and what the call acquired, invoked and saw on its way.
execute_hybrid_search(query, trie, cache, index, victim) ==
    LET ord      == CHOOSE o \in ChildOrders : TRUE
        lexical  == IF query.config.enable_prefix
                    THEN TrieIndex_search(trie, query.query, ord).value.exact_matches
                    ELSE <<>>
        stage1   == LexicalLoop([all_results |-> <<>>, seen_cases |-> {}], query, lexical)
        semantic == SemanticStageRuns(query, stage1.all_results)
        vs       == IF semantic
                    THEN VectorIndex_search(cache, index, query.query, VectorTopK, victim)
                    ELSE [results |-> <<>>, cache |-> cache, encoded |-> 0]
        stage2   == SemanticLoop(stage1, query, vs.results)
        sorted   == sort_by_score(stage2.all_results)
        filtered == apply_filters(sorted, query)
    IN  [results      |-> truncate(filtered, ResultCap(query)),
         vector_cache |-> vs.cache,
         acquired     |-> (IF query.config.enable_prefix THEN {"trie_index.read"} ELSE {})
                          \cup (IF semantic THEN {"vector_index.write"} ELSE {}),
         encoded      |-> vs.encoded,
         lexical      |-> lexical,
         semantic     |-> vs.results,
         seen_cases   |-> stage2.seen_cases]

\* A key that tells apart queries of one text by their filters and cap.
CacheKeyWithFilters(query) == <<query.query, query.court_filter, query.date_range, query.max_results>>

\* self.get_cached_result(&query.query) and self.cache_results(&query.query,
\* &results): the text alone is the key under which a list is stored.
CacheKey(query) == query.query

NoTrace == [op |-> "search_with_params", acquired |-> {}, encoded |-> 0,
            hybrid |-> FALSE, lexical |-> <<>>, semantic |-> <<>>, seen_cases |-> {}]

\* search_with_params, from the cache lookup to the return.
SearchWithParams(query) ==
    LET caching == config.enable_query_cache
        cached  == IF caching THEN QueryCache_get(query_cache, CacheKey(query), now)
                   ELSE None
        lookup  == IF caching THEN {"query_cache.read"} ELSE {}
        valid   == validate_query(config, query)
    IN  /\ call' = [op |-> "search_with_params", query |-> query, at |-> now,
                    entry |-> IF CacheKey(query) \in DOMAIN query_cache.cache
                              THEN Some(query_cache.cache[CacheKey(query)])
                              ELSE None]
        /\ IF IsSome(cached)
           THEN /\ ret' = Ok(Unwrap(cached))
                /\ trace' = [NoTrace EXCEPT !.acquired = lookup]
                /\ UNCHANGED <<query_cache, vector_cache>>
           ELSE IF valid.tag = "Err"
           THEN /\ ret' = valid
                /\ trace' = [NoTrace EXCEPT !.acquired = lookup]
                /\ UNCHANGED <<query_cache, vector_cache>>
           ELSE \E vv \in EvictionChoices(vector_cache, VectorCacheMaxSize) :
                   LET h == execute_hybrid_search(query, trie_index, vector_cache,
                                                  hnsw_index, vv)
                   IN  /\ ret' = Ok(h.results)
                       /\ vector_cache' = h.vector_cache
                       /\ trace' = [op |-> "search_with_params",
                                    acquired |-> lookup \cup h.acquired
                                        \cup (IF caching THEN {"query_cache.write"} ELSE {}),
                                    encoded |-> h.encoded, hybrid |-> TRUE,
                                    lexical |-> h.lexical, semantic |-> h.semantic,
                                    seen_cases |-> h.seen_cases]
                       /\ IF caching
                          THEN \E qv \in EvictionChoices(query_cache.cache,
                                                         query_cache.max_size) :
                                  query_cache' = QueryCache_insert(query_cache,
                                      CacheKey(query), h.results,
                                      config.query_cache_ttl_seconds, now, qv)
                          ELSE UNCHANGED query_cache
        /\ UNCHANGED <<now, config, trieVars, ann_impl, hnsw_index>>

(***************************************************************************)
(* Spec: the engine with its query cache enabled, under every bounded      *)
(* interleaving of index insertions, clock ticks and searches.             *)
(***************************************************************************)
CourtFilters == { None, Some({"Supreme Court"}) }

QShort == <<"a">>
QName  == <<"A", " ", "b">>
QOther == <<"b", " ", "a">>
QLong  == <<"a", " ", "b", " ", "a">>

Queries ==
    { SearchQuery(t, None, f, None, SearchConfig_default) :
        t \in {QName, QOther}, f \in CourtFilters }
    \cup { SearchQuery(t, None, None, None, SearchConfig_default) :
             t \in {QShort, QLong} }
    \cup { SearchQuery(QName, Some(1), None, None, SearchConfig_default),
           SearchQuery(QName, None, None, Some(<<2, 2>>), SearchConfig_default) }

\* query_cache_size 1 and 2, ttl 1 second, text lengths 2..3 accepted.
EngineConfigs == { SearchEngineConfig(TRUE, n, 1, 2, 3, DefaultSearchTimeoutMs) : n \in {1, 2} }

EngineInit(cfgs) ==
    /\ config \in cfgs
    /\ query_cache = QueryCache_new(config.query_cache_size)
    /\ now = 0
    /\ NoCall

\* The vector index is the one src/src/vector.rs builds.
Init == TrieInit /\ VectorInit /\ ann_impl = "stub" /\ EngineInit(EngineConfigs)

\* An index insertion while the engine is idle; the insertion is no engine
\* call, so the observation of the last call is cleared.
Insertion(A) == A /\ ClearCall /\ UNCHANGED <<query_cache, now, config>>

IndexInsertions ==
    \/ \E id \in {1, 2} :
          Insertion(InsertCaseName(<<"a", " ", "b">>, id) /\ UNCHANGED vectorVars)
    \/ Insertion(AddDocument(DocRef(1, 0, None), <<"a", " ", "b">>))

Next ==
    \/ IndexInsertions
    \/ Tick /\ UNCHANGED <<trieVars, vectorVars>>
    \/ \E q \in Queries : SearchWithParams(q)

Spec == Init /\ [][Next]_vars

IndexLocks == {"trie_index.read", "vector_index.write"}

InvalidLength(query) ==
    \/ str_len(query.query) < config.min_query_length
    \/ str_len(query.query) > config.max_query_length

(***************************************************************************)
(* C1. A query whose text is shorter than min_query_length or longer than  *)
(* max_query_length makes search_with_params return an InvalidSearchQuery  *)
(* error without acquiring the trie index or the vector index, whatever    *)
(* the query cache holds and whatever calls came before.                   *)
(***************************************************************************)
C1_InvalidLengthRejected ==
    (call.op = "search_with_params" /\ InvalidLength(call.query)) =>
        /\ ret.tag = "Err"
        /\ ret.error.kind = "InvalidSearchQuery"
        /\ ret.error.query = call.query.query
        /\ trace.acquired \cap IndexLocks = {}
        /\ ~trace.hybrid

\* An over-long query was rejected while the cache held the result of an
\* earlier successful search.
C1_Witness ==
    /\ call.op = "search_with_params"
    /\ str_len(call.query.query) > config.max_query_length
    /\ QueryCache_len(query_cache) > 0
    /\ ret.tag = "Err"
    /\ trace.acquired \cap IndexLocks = {}

(***************************************************************************)
(* C2 as claimed: every result of a search_with_params call that carries a *)
(* court_filter, with query caching enabled, has a court in the filter.    *)
(***************************************************************************)
C2_CourtFilterRespected ==
    (/\ call.op = "search_with_params"
     /\ IsSome(call.query.court_filter)
     /\ ret.tag = "Ok") =>
        \A i \in 1..Len(ret.value) :
            ret.value[i].case_metadata.court \in Unwrap(call.query.court_filter)

(***************************************************************************)
(* C5 as claimed: when the text of a search_with_params call has an entry  *)
(* in the query cache (stored by an earlier successful call, not evicted)  *)
(* and less than ttl_seconds have elapsed since that entry was stored, the *)
(* call returns the stored list without invoking the embedding provider    *)
(* and without reading either index.                                       *)
(***************************************************************************)
C5_RepeatServedFromCache ==
    (/\ call.op = "search_with_params"
     /\ IsSome(call.entry)
     /\ call.at - Unwrap(call.entry).timestamp
           < Unwrap(call.entry).ttl_seconds * TicksPerSecond) =>
        /\ ret = Ok(Unwrap(call.entry).results)
        /\ trace.encoded = 0
        /\ trace.acquired \cap IndexLocks = {}

(***************************************************************************)
(* C5 (as amended). When the text of a search_with_params call has an      *)
(* entry in the query cache and the whole-second timestamps of the call    *)
(* and of the entry differ by less than ttl_seconds, the call returns the  *)
(* stored list without invoking the embedding provider, without reading    *)
(* either index and without running the hybrid search, whatever was        *)
(* inserted into the indexes since the entry was stored.                   *)
(***************************************************************************)
C5_RepeatServedWithinWholeSeconds ==
    (/\ call.op = "search_with_params"
     /\ IsSome(call.entry)
     /\ timestamp(call.at) - timestamp(Unwrap(call.entry).timestamp)
           < Unwrap(call.entry).ttl_seconds) =>
        /\ ret = Ok(Unwrap(call.entry).results)
        /\ trace.encoded = 0
        /\ trace.acquired \cap IndexLocks = {}
        /\ ~trace.hybrid
        /\ query_cache.cache[call.query.query] = Unwrap(call.entry)

\* A repeated query was served the stored list although the indexes had
\* changed since: a fresh hybrid search would have returned another list.
C5_Witness ==
    /\ call.op = "search_with_params"
    /\ IsSome(call.entry)
    /\ ret = Ok(Unwrap(call.entry).results)
    /\ ~trace.hybrid
    /\ \E vv \in EvictionChoices(vector_cache, VectorCacheMaxSize) :
          execute_hybrid_search(call.query, trie_index, vector_cache,
                                hnsw_index, vv).results # ret.value

(***************************************************************************)
(* C27. The cache key is the raw query text only.  A successful hybrid      *)
(* search stores the list it returns under the text of its query, and a    *)
(* call whose text has an entry that is live by whole-second timestamps    *)
(* returns exactly that stored list, whatever the court_filter, date_range *)
(* and max_results of the call are.                                        *)
(***************************************************************************)
C27_CacheKeyIsRawText ==
    call.op = "search_with_params" =>
        /\ (trace.hybrid /\ ret.tag = "Ok") =>
              /\ call.query.query \in DOMAIN query_cache.cache
              /\ query_cache.cache[call.query.query].results = ret.value
        /\ (/\ IsSome(call.entry)
            /\ timestamp(call.at) - timestamp(Unwrap(call.entry).timestamp)
                  < Unwrap(call.entry).ttl_seconds) =>
              \A q \in Queries :
                  q.query = call.query.query =>
                      /\ CacheKey(q) = CacheKey(call.query)
                      /\ ret = Ok(Unwrap(call.entry).results)

\* Calls capped at one result and restricted to the dates 2..2 were served
\* a stored list of two results, computed for a query with neither: one
\* result is beyond the cap, one is dated outside the range.
C27_Witness ==
    /\ call.op = "search_with_params"
    /\ IsSome(call.entry)
    /\ ~trace.hybrid
    /\ ret = Ok(Unwrap(call.entry).results)
    /\ Len(ret.value) = 2
    /\ \/ call.query.max_results = Some(1)
       \/ /\ call.query.date_range = Some(<<2, 2>>)
          /\ \E i \in 1..2 : ret.value[i].case_metadata.decision_date # 2

(***************************************************************************)
(* C28 as claimed: every SearchResult that search_with_params returns has  *)
(* a score within 0.0 to 1.0 (0..100 in hundredths), lexical results and   *)
(* the default SearchConfig included.                                      *)
(***************************************************************************)
C28_ScoresWithinUnitRange ==
    (call.op = "search_with_params" /\ ret.tag = "Ok") =>
        \A i \in 1..Len(ret.value) :
            ret.value[i].score >= 0 /\ ret.value[i].score <= 100

(***************************************************************************)
(* SpecFusion: the engine with its query cache disabled, so that every     *)
(* call runs execute_hybrid_search, over both vector indexes and queries   *)
(* with every combination of the two result caps.                          *)
(***************************************************************************)
FusionCaps == {1, 2}

FusionQueries ==
    { SearchQuery(QName, m, None, None, SearchConfig(c, 50, w, TRUE, TRUE)) :
        m \in {None} \cup { Some(n) : n \in FusionCaps },
        c \in FusionCaps, w \in {200, 60} }

FusionConfigs == { SearchEngineConfig(FALSE, 1, 1, 2, 3, DefaultSearchTimeoutMs) }

InitFusion == TrieInit /\ VectorInit /\ EngineInit(FusionConfigs)

FusionInsertions ==
    \/ \E id \in CaseIds :
          Insertion(InsertCaseName(<<"a", " ", "b">>, id) /\ UNCHANGED vectorVars)
    \/ \E id \in {1, 2}, par \in {0, 1} :
          Insertion(AddDocument(DocRef(id, par, None), <<"a", " ", "b">>))

NextFusion ==
    \/ FusionInsertions
    \/ \E q \in FusionQueries : SearchWithParams(q)

SpecFusion == InitFusion /\ [][NextFusion]_vars

\* The smaller of the caps of a query; config.max_results alone when
\* query.max_results is absent.
MinCap(query) ==
    IF IsSome(query.max_results) /\ Unwrap(query.max_results) < query.config.max_results
    THEN Unwrap(query.max_results)
    ELSE query.config.max_results

(***************************************************************************)
(* C3 as claimed: the list search_with_params returns never has more than  *)
(* min(query.max_results, config.max_results) entries (config.max_results  *)
(* alone when query.max_results is absent).                                *)
(***************************************************************************)
C3_LengthWithinBothCaps ==
    (call.op = "search_with_params" /\ ret.tag = "Ok") =>
        Len(ret.value) <= MinCap(call.query)

\* The case ids the lexical stage produced: those of the exact matches with
\* stored metadata.
LexicalCases ==
    { trace.lexical[i].case_id : i \in 1..Len(trace.lexical) }
        \cap DOMAIN StoredMetadata

\* The case ids the semantic stage produced: those of the vector results at
\* or above min_similarity with stored metadata.
SemanticCases ==
    { trace.semantic[i].doc_ref.case_id :
        i \in { j \in 1..Len(trace.semantic) :
                  trace.semantic[j].similarity_score
                      >= call.query.config.min_similarity } }
        \cap DOMAIN StoredMetadata

Range(seq) == { seq[i] : i \in DOMAIN seq }

\* The tokens sub-trie `kind` looks a query text up by.
QueryTokens(kind, query) ==
    CASE kind = "case_name" -> MapSeq(to_lowercase, split_whitespace(query))
      [] kind = "content"   -> MapSeq(to_lowercase, split_whitespace(query))
      [] kind = "citation"  -> split_whitespace(query)

\* The DocRefs of the insertions into `kind` whose token path is `tokens`.
InsertedAt(kind, tokens) ==
    { op.doc_ref : op \in { o \in DOMAIN insert_log[kind] :
                               InsertedTokens(kind, o.arg) = tokens } }

SubTrieSearch(kind, query, ord) ==
    CASE kind = "case_name" -> CaseNameTrie_search(trie_index.case_name_trie, query, ord)
      [] kind = "citation"  -> CitationTrie_search(trie_index.citation_trie, query, ord)
      [] kind = "content"   -> ContentTrie_search_tokens(trie_index.content_trie,
                                                         split_whitespace(query), ord)

\* The sub-trie whose result TrieIndex.search is to return for a query.
AnsweringSubTrie(query) ==
    IF InsertedAt("case_name", QueryTokens("case_name", query)) # {} THEN "case_name"
    ELSE IF InsertedAt("citation", QueryTokens("citation", query)) # {} THEN "citation"
    ELSE "content"

(***************************************************************************)
(* C19. TrieIndex.search returns the case-name sub-trie's result if a case *)
(* name was inserted at the query's tokens, otherwise the citation         *)
(* sub-trie's result if a citation was, otherwise the content sub-trie's   *)
(* result for the whitespace-split query as it was typed; the exact        *)
(* matches are the DocRefs inserted there, and completions that only the   *)
(* case-name or citation sub-trie has are not in a fallback result.        *)
(***************************************************************************)
C19_SearchFallbackOrder ==
    \A query \in TrieQueries, ord \in ChildOrders :
        LET kind == AnsweringSubTrie(query)
            r    == TrieIndex_search(trie_index, query, ord)
        IN  /\ r.tag = "Ok"
            /\ r.value = SubTrieSearch(kind, query, ord)
            /\ Range(r.value.exact_matches) = InsertedAt(kind, QueryTokens(kind, query))
            /\ r.value.exact_matches = <<>> =>
                  \A c \in Range(r.value.prefix_completions) :
                      \E op \in DOMAIN insert_log.content :
                          c = join(InsertedTokens("content", op.arg), <<" ">>)

\* A search fell back to the content sub-trie, which matched tokens typed in
\* upper case, while the case-name sub-trie had completions for the query.
C19_Witness ==
    /\ trie_ret.op = "search"
    /\ AnsweringSubTrie(trie_ret.query) = "content"
    /\ trie_ret.result.value.exact_matches # <<>>
    /\ split_whitespace(trie_ret.query) # QueryTokens("content", trie_ret.query)
    /\ \E ord \in ChildOrders :
          SubTrieSearch("case_name", trie_ret.query, ord).prefix_completions # <<>>

IsLowercase(tokens) == \A i \in DOMAIN tokens : to_lowercase(tokens[i]) = tokens[i]

Texts3 == UNION { [1..n -> {"a", "A", "b", "B", " "}] : n \in 0..3 }

CaseVariants(text) == { v \in Texts3 : IsCaseVariant(v, text) }

\* The token lists that differ from `tokens` at most in letter case.
TokenCaseVariants(tokens) ==
    { split_whitespace(v) : v \in CaseVariants(join(tokens, <<" ">>)) }

(***************************************************************************)
(* C20. Case-name and content insertions store every token lowercased and  *)
(* citation insertions store the tokens as written; each sub-trie looks a  *)
(* query up the way it inserts: a case name and a content token list are   *)
(* found by every letter-case variant, a citation only by a query whose    *)
(* tokens have the letter case of an inserted citation.                    *)
(***************************************************************************)
C20_CaseHandlingPerSubTrie ==
    /\ \A kind \in {"case_name", "content"} :
          \A pn \in NodesUnder(SubTrieRoot(kind), <<>>) : IsLowercase(pn.path)
    /\ { pn.path : pn \in NodesUnder(SubTrieRoot("citation"), <<>>) }
          = {<<>>} \cup UNION { Prefixes(split_whitespace(op.arg)) :
                                  op \in DOMAIN insert_log.citation }
    /\ \A ord \in ChildOrders :
          /\ \A op \in DOMAIN insert_log.case_name : \A v \in CaseVariants(op.arg) :
                op.doc_ref \in Range(CaseNameTrie_search(trie_index.case_name_trie,
                                                         v, ord).exact_matches)
          /\ \A op \in DOMAIN insert_log.content : \A v \in TokenCaseVariants(op.arg) :
                op.doc_ref \in Range(ContentTrie_search_tokens(trie_index.content_trie,
                                                               v, ord).exact_matches)
          /\ \A op \in DOMAIN insert_log.citation : \A v \in CaseVariants(op.arg) :
                op.doc_ref \in Range(CitationTrie_search(trie_index.citation_trie,
                                                         v, ord).exact_matches)
                <=> \E o \in DOMAIN insert_log.citation :
                       /\ o.doc_ref = op.doc_ref
                       /\ split_whitespace(o.arg) = split_whitespace(v)

\* A citation written with an upper-case letter is in the index and its
\* lowercased text does not find it, next to a case name written with an
\* upper-case letter.
C20_Witness ==
    /\ \E op \in DOMAIN insert_log.citation :
          /\ to_lowercase(op.arg) # op.arg
          /\ \A ord \in ChildOrders :
                CitationTrie_search(trie_index.citation_trie, to_lowercase(op.arg),
                                    ord).exact_matches = <<>>
    /\ \E op \in DOMAIN insert_log.case_name : to_lowercase(op.arg) # op.arg

(***************************************************************************)
(* ValidationUtils::is_valid_search_query (src/src/utils.rs).              *)
(***************************************************************************)
RECURSIVE trim_start(_)
trim_start(s) ==
    IF s # <<>> /\ is_whitespace(Head(s)) THEN trim_start(Tail(s)) ELSE s

RECURSIVE trim_end(_)
trim_end(s) ==
    IF s # <<>> /\ is_whitespace(s[Len(s)])
    THEN trim_end(SubSeq(s, 1, Len(s) - 1))
    ELSE s

trim_nothing(s) == s
\* str::trim
trim(s) == trim_end(trim_start(s))

is_valid_search_query(query, min_length, max_length) ==
    LET trimmed == trim(query)
    IN  /\ trimmed # <<>>
        /\ str_len(trimmed) >= min_length
        /\ str_len(trimmed) <= max_length

ValidationQueries == UNION { [1..n -> {"a", "b", " "}] : n \in 0..MaxQueryChars }
ValidationLengths == 0..MaxQueryChars

\* One application to one input.
IsValidSearchQuery(query, min_length, max_length) ==
    /\ call.op = "none"
    /\ call' = [op |-> "is_valid_search_query", query |-> query,
                min_length |-> min_length, max_length |-> max_length]
    /\ ret' = [op |-> "is_valid_search_query",
               value |-> is_valid_search_query(query, min_length, max_length)]
    /\ trace' = [op |-> "none"]
    /\ UNCHANGED <<trieVars, vectorVars, query_cache, now, config>>

InitValidation == TrieInit /\ IdleVector /\ IdleEngine /\ NoCall

NextValidation ==
    \E q \in ValidationQueries, min \in ValidationLengths, max \in ValidationLengths :
        IsValidSearchQuery(q, min, max)

SpecValidation == InitValidation /\ [][NextValidation]_vars

\* The positions of the characters of s that are not whitespace.
NonBlank(s) == { i \in 1..Len(s) : ~is_whitespace(s[i]) }

Min(S) == CHOOSE x \in S : \A y \in S : x <= y
Max(S) == CHOOSE x \in S : \A y \in S : x >= y

(***************************************************************************)
(* C18. is_valid_search_query(q, min, max) is true exactly when q has a    *)
(* character that is not whitespace and the length of q from its first to  *)
(* its last such character lies in [min, max]; the empty query, a query of *)
(* whitespace only and every query shorter than min are rejected.          *)
(***************************************************************************)
C18_ValidBetweenBlanks ==
    call.op = "is_valid_search_query" =>
        LET q == call.query
            n == IF NonBlank(q) = {} THEN 0 ELSE Max(NonBlank(q)) - Min(NonBlank(q)) + 1
        IN  /\ ret.value <=> (n >= 1 /\ n >= call.min_length /\ n <= call.max_length)
            /\ q = <<>> => ~ret.value
            /\ Len(q) < call.min_length => ~ret.value

\* A query longer than max_length was accepted because it is within the
\* bounds once its surrounding whitespace is removed.
C18_Witness ==
    /\ call.op = "is_valid_search_query"
    /\ ret.value
    /\ Len(call.query) > call.max_length
    /\ call.min_length >= 1

(***************************************************************************)
(* SpecVector: the VectorIndex of src/src/vector.rs alone, with its        *)
(* configured dimension, under every bounded sequence of add_document and  *)
(* search calls.                                                           *)
(***************************************************************************)
\* VectorConfig: the field the index reads.
VectorConfig(dimension) == [dimension |-> dimension]

VectorConfigs == { VectorConfig(d) : d \in {EmbeddingDimension, 384} }

VectorTexts == { <<"a", " ", "b">>, <<"A", " ", "b">>, <<"b">> }
VectorDocRefs == { DocRef(1, 0, None), DocRef(2, 1, Some(0)) }
VectorTopKs == {1, VectorTopK}

\* The Result of HnswIndex::add_vector: Ok(()) for every vector.
HnswIndex_add_vector_result(index, doc_ref, embedding) == Ok(<<>>)

\* VectorIndex::add_document with its Result.
VectorAddDocument(doc_ref, text) ==
    /\ AddDocument(doc_ref, text)
    /\ call' = [op |-> "add_document", doc_ref |-> doc_ref, text |-> text,
                embedding |-> IF text \in DOMAIN vector_cache THEN vector_cache[text]
                              ELSE EmbeddingModel_encode(text),
                index |-> hnsw_index]
    /\ ret' = HnswIndex_add_vector_result(hnsw_index, doc_ref,
                  IF text \in DOMAIN vector_cache THEN vector_cache[text]
                  ELSE EmbeddingModel_encode(text))
    /\ trace' = [op |-> "none"]
    /\ UNCHANGED <<query_cache, now, config>>

\* VectorIndex::search
VectorSearch(text, top_k) ==
    \E victim \in EvictionChoices(vector_cache, VectorCacheMaxSize) :
        LET r == VectorIndex_search(vector_cache, hnsw_index, text, top_k, victim)
        IN  /\ vector_cache' = r.cache
            /\ call' = [op |-> "vector_search", query |-> text, top_k |-> top_k,
                        embedding |-> IF text \in DOMAIN vector_cache
                                      THEN vector_cache[text]
                                      ELSE EmbeddingModel_encode(text)]
            /\ ret' = Ok(r.results)
            /\ trace' = [op |-> "none"]
            /\ UNCHANGED <<trieVars, ann_impl, hnsw_index, query_cache, now, config>>

InitVector ==
    /\ TrieInit
    /\ VectorInit
    /\ ann_impl = "stub"
    /\ config \in VectorConfigs
    /\ query_cache = QueryCache_new(0)
    /\ now = 0
    /\ NoCall

NextVector ==
    \/ \E d \in VectorDocRefs, t \in VectorTexts : VectorAddDocument(d, t)
    \/ \E t \in VectorTexts, k \in VectorTopKs : VectorSearch(t, k)

SpecVector == InitVector /\ [][NextVector]_vars

\* The documents added with a text whose embedding is `embedding`.
AddedWithEmbedding(embedding) ==
    { op.doc_ref : op \in { o \in DOMAIN insert_log.document :
                               EmbeddingModel_encode(o.arg) = embedding } }

(***************************************************************************)
(* C16 as claimed: once add_document has inserted a vector v under doc ref *)
(* D, a search whose query embeds to v itself, with top_k >= 1, returns a  *)
(* document inserted with v as its top result, at distance 0 (similarity   *)
(* 1.0), however many other vectors were inserted.                         *)
(***************************************************************************)
C16_SelfQueryFindsDocument ==
    (/\ call.op = "vector_search"
     /\ call.top_k >= 1
     /\ AddedWithEmbedding(call.embedding) # {}) =>
        /\ ret.tag = "Ok"
        /\ ret.value # <<>>
        /\ ret.value[1].doc_ref \in AddedWithEmbedding(call.embedding)
        /\ ret.value[1].similarity_score = 100

(***************************************************************************)
(* C17 as claimed: add_document of a vector whose length differs from the  *)
(* configured dimension returns a configuration-mismatch error and leaves  *)
(* the index unchanged, and a search of an empty index returns an empty    *)
(* result and no error.                                                    *)
(***************************************************************************)
C17_DimensionMismatchRejected ==
    /\ (call.op = "add_document" /\ call.embedding.dimension # config.dimension) =>
          /\ ret.tag = "Err"
          /\ hnsw_index = call.index
    /\ (call.op = "vector_search" /\ DOMAIN insert_log.document = {}) =>
          ret = Ok(<<>>)

(***************************************************************************)
(* SpecConc: search_with_params as concurrent callers run it.  Every       *)
(* caller advances through the function's steps; a step ends where the     *)
(* code awaits a lock, the embedding model or the HNSW index.  Here        *)
(*   call[t]  is caller t's position and locals,                           *)
(*   ret[t]   is what its call returned,                                   *)
(*   trace    is the state of the three tokio RwLocks of SearchEngine.     *)
(***************************************************************************)
Callers == {1, 2}

\* tokio::sync::RwLock: any number of readers, or one writer.
RwLock_new == [readers |-> {}, writer |-> {}]
RwLock_can_read(lock) == lock.writer = {}
RwLock_can_write(lock) == lock.writer = {} /\ lock.readers = {}
RwLock_read(lock, t) == [lock EXCEPT !.readers = @ \cup {t}]
RwLock_write(lock, t) == [lock EXCEPT !.writer = {t}]
\* the guard is dropped
RwLock_release(lock, t) == [readers |-> lock.readers \ {t}, writer |-> lock.writer \ {t}]

\* A time budget of half a second, so that a call of two ticks exceeds it.
ConcTimeoutMs == 500

\* The query cache is enabled.
ConcConfigs == { SearchEngineConfig(TRUE, 2, 1, 2, 3, ConcTimeoutMs) }

ConcQueries ==
    { SearchQuery(t, None, None, None, SearchConfig_default) : t \in {QName, QShort} }

\* Duration in milliseconds of a number of ticks.
elapsed_ms(ticks) == (ticks * 1000) \div TicksPerSecond

SearchTimeout(timeout_ms) == [kind |-> "SearchTimeout", timeout_ms |-> timeout_ms]
EmbeddingGenerationFailed == [kind |-> "EmbeddingGenerationFailed"]
HnswSearchError == [kind |-> "HnswSearchError"]

\* The embedding provider and the ANN index of spec.md may fail (spec.md 7:
\* embedding-provider unavailable, ANN failure); the stubs of src/ never do.
SemanticStageMayFail == ann_impl = "spec"

\* `self.search_vector(&query.query).await?`: the error of the semantic stage
\* is the error of execute_hybrid_search, and by the `?` of search_with_params
\* the error of the call.  acc is what the lexical stage had collected.
SemanticStageDegrades(acc, error) == Ok(acc.all_results)
SemanticStageError(acc, error) == Err(error)

\* What is inserted into the indexes before the engine serves: the name of
\* case 1 and one document of it.
ConcCaseName == <<"a", " ", "b">>
ConcDocRef == DocRef(1, 0, None)

\* SearchEngine::new: empty indexes and an empty query cache behind their
\* locks; no caller has entered.
InitConc ==
    /\ TrieInit
    /\ VectorInit
    /\ config \in ConcConfigs
    /\ query_cache = QueryCache_new(config.query_cache_size)
    /\ now = 0
    /\ call = [t \in Callers |-> [pc |-> "idle"]]
    /\ ret = [t \in Callers |-> [op |-> "none"]]
    /\ trace = [trie_index |-> RwLock_new, vector_index |-> RwLock_new,
                query_cache |-> RwLock_new]

\* The indexes are filled before the first caller enters.
ConcInsertion(A) ==
    /\ \A t \in Callers : call[t].pc = "idle"
    /\ A
    /\ UNCHANGED engineVars

ConcInsertions ==
    \/ ConcInsertion(InsertCaseName(ConcCaseName, 1) /\ UNCHANGED vectorVars)
    \/ ConcInsertion(AddDocument(ConcDocRef, ConcCaseName))

\* What no step of search_with_params writes.
concFixed == <<trieVars, ann_impl, hnsw_index, config>>

\* Caller t is at pc; the step takes it to the record `next`.  A call's
\* record keeps the clock at its start and at its return (finish).
At(t, pc) == call[t].pc = pc
Goto(t, next) == call' = [call EXCEPT ![t] = next]
StepsWith(t, step) == Append(call[t].steps, step)

\* A caller enters search_with_params.
Begin(t, query) ==
    /\ call[t].pc = "idle"
    /\ Goto(t, [pc |-> IF config.enable_query_cache THEN "cache_lookup" ELSE "validate",
                query |-> query, start |-> now, steps |-> <<>>,
                acc |-> [all_results |-> <<>>, seen_cases |-> {}],
                encoded |-> None, failure |-> None, finish |-> None])
    /\ ret' = [ret EXCEPT ![t] = [op |-> "none"]]
    /\ UNCHANGED <<concFixed, vector_cache, query_cache, now, trace>>

\* get_cached_result: query_cache.read(), get, and the guard is dropped.
CacheLookup(t) ==
    /\ At(t, "cache_lookup")
    /\ RwLock_can_read(trace.query_cache)
    /\ LET cached == QueryCache_get(query_cache, CacheKey(call[t].query), now)
           steps  == StepsWith(t, "cache_lookup")
       IN  IF IsSome(cached)
           THEN /\ Goto(t, [call[t] EXCEPT !.pc = "done", !.finish = Some(now), !.steps = steps])
                /\ ret' = [ret EXCEPT ![t] = Ok(Unwrap(cached))]
           ELSE /\ Goto(t, [call[t] EXCEPT !.pc = "validate", !.steps = steps])
                /\ UNCHANGED ret
    /\ UNCHANGED <<concFixed, vector_cache, query_cache, now, trace>>

\* self.validate_query(&query)?
Validate(t) ==
    /\ At(t, "validate")
    /\ LET valid == validate_query(config, call[t].query)
           steps == StepsWith(t, "validate")
       IN  IF valid.tag = "Err"
           THEN /\ Goto(t, [call[t] EXCEPT !.pc = "done", !.finish = Some(now), !.steps = steps])
                /\ ret' = [ret EXCEPT ![t] = valid]
           ELSE /\ Goto(t, [call[t] EXCEPT !.steps = steps,
                               !.pc = IF call[t].query.config.enable_prefix
                                      THEN "trie_acquire"
                                      ELSE IF SemanticStageRuns(call[t].query, <<>>)
                                      THEN "vector_acquire" ELSE "rank"])
                /\ UNCHANGED ret
    /\ UNCHANGED <<concFixed, vector_cache, query_cache, now, trace>>

\* search_trie: self.trie_index.read().await
TrieAcquire(t) ==
    /\ At(t, "trie_acquire")
    /\ RwLock_can_read(trace.trie_index)
    /\ trace' = [trace EXCEPT !.trie_index = RwLock_read(@, t)]
    /\ Goto(t, [call[t] EXCEPT !.pc = "trie_search"])
    /\ UNCHANGED <<concFixed, vector_cache, query_cache, now, ret>>

\* trie.search(query), the guard is dropped, and stage 1 collects the exact
\* matches; stage 2 follows unless the lexical results fill the page.
LexicalStage(t) ==
    /\ At(t, "trie_search")
    /\ LET query   == call[t].query
           ord     == CHOOSE o \in ChildOrders : TRUE
           lexical == TrieIndex_search(trie_index, query.query, ord).value.exact_matches
           stage1  == LexicalLoop(call[t].acc, query, lexical)
       IN  Goto(t, [call[t] EXCEPT
                       !.acc = stage1,
                       !.steps = StepsWith(t, "lexical"),
                       !.pc = IF SemanticStageRuns(query, stage1.all_results)
                              THEN "vector_acquire" ELSE "rank"])
    /\ trace' = [trace EXCEPT !.trie_index = RwLock_release(@, t)]
    /\ UNCHANGED <<concFixed, vector_cache, query_cache, now, ret>>

\* search_vector: self.vector_index.write().await
VectorAcquire(t) ==
    /\ At(t, "vector_acquire")
    /\ RwLock_can_write(trace.vector_index)
    /\ trace' = [trace EXCEPT !.vector_index = RwLock_write(@, t)]
    /\ Goto(t, [call[t] EXCEPT !.pc = "embed"])
    /\ UNCHANGED <<concFixed, vector_cache, query_cache, now, ret>>

\* The semantic stage fails with `error`: the guard is dropped and the call
\* returns.
SemanticFails(t, error) ==
    /\ Goto(t, [call[t] EXCEPT !.pc = "done", !.finish = Some(now),
                               !.failure = Some(error),
                               !.steps = StepsWith(t, "semantic_failed")])
    /\ ret' = [ret EXCEPT ![t] = SemanticStageError(call[t].acc, error)]
    /\ trace' = [trace EXCEPT !.vector_index = RwLock_release(@, t)]
    /\ UNCHANGED <<concFixed, vector_cache, query_cache, now>>

\* VectorIndex::search: self.generate_embedding(query).await?, under the
\* write guard.  The model of src/ never fails; the provider of spec.md may.
Embed(t) ==
    /\ At(t, "embed")
    /\ \E victim \in EvictionChoices(vector_cache, VectorCacheMaxSize) :
          LET g == generate_embedding(vector_cache, call[t].query.query, victim)
          IN  \/ /\ vector_cache' = g.cache
                 /\ Goto(t, [call[t] EXCEPT !.pc = "ann_search",
                                            !.encoded = Some(g.encoded)])
                 /\ UNCHANGED <<concFixed, query_cache, now, ret, trace>>
              \/ /\ SemanticStageMayFail
                 /\ g.encoded = 1
                 /\ SemanticFails(t, EmbeddingGenerationFailed)

\* self.hnsw_index.search(&embedding, top_k).await?, the conversion to
\* VectorSearchResult, the guard is dropped, and stage 2 collects.
AnnSearch(t) ==
    /\ At(t, "ann_search")
    /\ LET query == call[t].query
           vs    == VectorIndex_search(vector_cache, hnsw_index, query.query,
                                       VectorTopK, None)
       IN  \/ /\ Goto(t, [call[t] EXCEPT
                             !.acc = SemanticLoop(call[t].acc, query, vs.results),
                             !.steps = StepsWith(t, "semantic"),
                             !.pc = "rank"])
              /\ trace' = [trace EXCEPT !.vector_index = RwLock_release(@, t)]
              /\ UNCHANGED <<concFixed, vector_cache, query_cache, now, ret>>
           \/ /\ SemanticStageMayFail
              /\ SemanticFails(t, HnswSearchError)

\* sort_by, apply_filters, truncate; without a query cache the call returns.
Rank(t) ==
    /\ At(t, "rank")
    /\ LET query    == call[t].query
           sorted   == sort_by_score(call[t].acc.all_results)
           filtered == apply_filters(sorted, query)
           results  == truncate(filtered, ResultCap(query))
           steps    == call[t].steps \o <<"sort", "filter", "truncate">>
       IN  IF config.enable_query_cache
           THEN /\ Goto(t, [call[t] EXCEPT !.pc = "cache_store", !.steps = steps,
                                           !.acc.all_results = results])
                /\ UNCHANGED ret
           ELSE /\ Goto(t, [call[t] EXCEPT !.pc = "done", !.finish = Some(now), !.steps = steps,
                                           !.acc.all_results = results])
                /\ ret' = [ret EXCEPT ![t] = Ok(results)]
    /\ UNCHANGED <<concFixed, vector_cache, query_cache, now, trace>>

\* cache_results: query_cache.write(), insert, the guard is dropped, Ok(results).
CacheStore(t) ==
    /\ At(t, "cache_store")
    /\ RwLock_can_write(trace.query_cache)
    /\ \E victim \in EvictionChoices(query_cache.cache, query_cache.max_size) :
          query_cache' = QueryCache_insert(query_cache, CacheKey(call[t].query),
                             call[t].acc.all_results,
                             config.query_cache_ttl_seconds, now, victim)
    /\ Goto(t, [call[t] EXCEPT !.pc = "done", !.finish = Some(now), !.steps = StepsWith(t, "cache_store")])
    /\ ret' = [ret EXCEPT ![t] = Ok(call[t].acc.all_results)]
    /\ UNCHANGED <<concFixed, vector_cache, now, trace>>

\* Time passes while calls are in flight.
ConcTick ==
    /\ now < MaxTime
    /\ now' = now + 1
    /\ UNCHANGED <<concFixed, vector_cache, query_cache, call, ret, trace>>

NextConc ==
    \/ ConcInsertions
    \/ \E t \in Callers, q \in ConcQueries : Begin(t, q)
    \/ \E t \in Callers : CacheLookup(t)
    \/ \E t \in Callers : Validate(t)
    \/ \E t \in Callers : TrieAcquire(t)
    \/ \E t \in Callers : LexicalStage(t)
    \/ \E t \in Callers : VectorAcquire(t)
    \/ \E t \in Callers : Embed(t)
    \/ \E t \in Callers : AnnSearch(t)
    \/ \E t \in Callers : Rank(t)
    \/ \E t \in Callers : CacheStore(t)
    \/ ConcTick

SpecConc == InitConc /\ [][NextConc]_vars

InFlight(t) == call[t].pc \notin {"idle", "done"}
Returned(t) == call[t].pc = "done"

\* The rank of a logged step in the order of spec.md 4.4 (steps 1 to 8); a
\* failed semantic stage is step 4.
StepRank(step) ==
    CASE step = "validate"        -> 1
      [] step = "cache_lookup"    -> 2
      [] step = "lexical"         -> 3
      [] step = "semantic"        -> 4
      [] step = "semantic_failed" -> 4
      [] step = "sort"            -> 5
      [] step = "filter"          -> 6
      [] step = "truncate"        -> 7
      [] step = "cache_store"     -> 8

InSpecOrder(steps) ==
    \A i, j \in DOMAIN steps : i < j => StepRank(steps[i]) < StepRank(steps[j])

\* C11: within one search_with_params call the steps occur strictly in the
\* order validation, cache lookup, lexical stage, semantic stage, sort,
\* filter, truncate, cache store; validation precedes the cache lookup and
\* all index work.
C11_StepsInSpecOrder ==
    \A t \in Callers : call[t].pc # "idle" => InSpecOrder(call[t].steps)

\* A search is excluded from an index: it waits for a lock another holds.
Excluded(t) ==
    \/ At(t, "trie_acquire") /\ ~RwLock_can_read(trace.trie_index)
    \/ At(t, "vector_acquire") /\ ~RwLock_can_write(trace.vector_index)

\* C12: searches take only shared (read) access to the trie index and to the
\* vector index, and one search never excludes another from an index.
C12_SearchesShareIndexes ==
    /\ trace.trie_index.writer = {}
    /\ trace.vector_index.writer = {}
    /\ \A t \in Callers : ~Excluded(t)

\* Callers t and u are both past a cache miss (or run without a cache) on
\* the same text, and neither has returned.
ConcurrentDuplicates(t, u) ==
    /\ t # u
    /\ InFlight(t) /\ InFlight(u)
    /\ call[t].pc # "cache_lookup" /\ call[u].pc # "cache_lookup"
    /\ call[t].query.query = call[u].query.query

\* t waits until u's vector search is over.
WaitsFor(t, u) == At(t, "vector_acquire") /\ trace.vector_index.writer = {u}

\* t took from the embedding cache the embedding that u, still in flight,
\* computed.
ReusesEmbeddingOf(t, u) == call[t].encoded = Some(0) /\ call[u].encoded = Some(1)

FullPipeline ==
    <<"cache_lookup", "validate", "lexical", "semantic", "sort", "filter",
      "truncate", "cache_store">>

\* C13: of two callers that concurrently issue the same uncached query, each
\* runs the lexical and the semantic stage and writes the cache entry, and
\* neither waits for or reuses the other's in-flight computation.
C13_ConcurrentDuplicatesIndependent ==
    /\ \A t \in Callers :
          (/\ Returned(t)
           /\ config.enable_query_cache
           /\ ret[t].tag = "Ok"
           /\ "validate" \in Range(call[t].steps))
          => call[t].steps = FullPipeline
    /\ \A t, u \in Callers :
          ConcurrentDuplicates(t, u) => ~WaitsFor(t, u) /\ ~ReusesEmbeddingOf(t, u)

\* Milliseconds from the call's start to its return.
Duration(t) == elapsed_ms(Unwrap(call[t].finish) - call[t].start)

\* C14: a call whose execution exceeds search_timeout_ms is aborted with a
\* timeout error and returns no result list after the budget has elapsed.
C14_TimeoutAborts ==
    \A t \in Callers :
        (Returned(t) /\ Duration(t) > config.search_timeout_ms)
        => ret[t] = Err(SearchTimeout(config.search_timeout_ms))

SemanticFailed(t) == Returned(t) /\ IsSome(call[t].failure)

\* The step in which caller t's semantic stage fails.
SemanticFailsNow(t) ==
    /\ call[t].pc \in {"embed", "ann_search"}
    /\ call'[t].pc = "done"
    /\ IsSome(call'[t].failure)

InsertedInOrder(kind, path) ==
    LET ops == SelectSeq(insert_log.order[kind],
                         LAMBDA op : InsertedTokens(kind, op.arg) = path)
    IN  [i \in 1..Len(ops) |-> ops[i].doc_ref]

\* C21: when the query path exists in a sub-trie, exact_matches is exactly
\* the sequence of DocRefs inserted with that token path, in insertion order
\* and with every occurrence kept; it is empty when the path exists only as
\* a proper prefix of inserted token sequences.
C21_ExactMatchesAreInsertions ==
    \A kind \in SubTries :
        \A tokens \in InsertedPaths(kind), ord \in ChildOrders :
            TrieNode_search(SubTrieRoot(kind), tokens, ord).exact_matches
                = InsertedInOrder(kind, tokens)

\* A search returned two DocRefs inserted one after the other at one path,
\* whose first token alone is a path that no insertion ended at.
C21_Witness ==
    /\ trie_ret.op = "search"
    /\ LET found == trie_ret.result.value.exact_matches
       IN  /\ Len(found) = 2
           /\ \E kind \in SubTries :
                 \E path \in InsertedPaths(kind) :
                    /\ Len(path) = 2
                    /\ InsertedInOrder(kind, path) = found
                    /\ InsertedInOrder(kind, SubSeq(path, 1, 1)) = <<>>

(***************************************************************************)
(* SpecCompletions: the citation sub-trie after the insertion of any set   *)
(* of citations of one or two tokens, under every lookup of such a         *)
(* citation or of the blank text and every child iteration order.          *)
(***************************************************************************)
CompletionTokens == { <<"a">>, <<"b">>, <<"A">> }

CompletionPaths ==
    { <<s>> : s \in CompletionTokens }
    \cup { <<s, t>> : s \in CompletionTokens, t \in CompletionTokens }

CompletionDocRef == DocRef(1, 0, None)

\* insert_citation for every path of `paths`, one after the other:
\* [the citation sub-trie, the insertion log].
RECURSIVE InsertCitations(_, _)
InsertCitations(acc, paths) ==
    IF paths = {} THEN acc
    ELSE LET path     == CHOOSE x \in paths : TRUE
             citation == join(path, <<" ">>)
             op       == LogOp(citation, CompletionDocRef)
         IN  InsertCitations(
                [trie |-> CitationTrie_insert(acc.trie, citation, CompletionDocRef),
                 log  |-> [acc.log EXCEPT !.citation = LogAdd(@, op),
                                          !.order.citation = Append(@, op)]],
                paths \ {path})

InitCompletions ==
    /\ \E paths \in SUBSET CompletionPaths :
          LET built == InsertCitations([trie |-> TrieNode_new, log |-> EmptyLog], paths)
          IN  /\ trie_index = [TrieIndex_new EXCEPT !.citation_trie = built.trie]
              /\ insert_log = built.log
    /\ trie_ret = [op |-> "none"]
    /\ IdleVector
    /\ IdleEngine

\* CitationTrie::search, once on every sub-trie.
CitationSearch(query, ord) ==
    /\ trie_ret.op = "none"
    /\ trie_ret' = [op |-> "citation_search", query |-> query, ord |-> ord,
                    result |-> CitationTrie_search(trie_index.citation_trie, query, ord)]
    /\ UNCHANGED <<trie_index, insert_log, vectorVars, engineVars>>

NextCompletions ==
    \E path \in CompletionPaths \cup {<<>>}, ord \in ChildOrders :
        CitationSearch(join(path, <<" ">>), ord)

SpecCompletions == InitCompletions /\ [][NextCompletions]_vars

\* The token paths inserted into sub-trie `kind` that extend `tokens` by at
\* least one token: the terminal strict descendants of the node of `tokens`.
InsertedBelow(kind, tokens) ==
    { path \in { InsertedTokens(kind, op.arg) : op \in DOMAIN insert_log[kind] } :
        /\ Len(path) > Len(tokens)
        /\ SubSeq(path, 1, Len(tokens)) = tokens }

\* C22: prefix_completions contains only the token paths of terminal nodes
\* that are strict descendants of the node reached by the query (never the
\* query path itself), each at most once and at most 10 in total; when the
\* query node has 10 or fewer terminal strict descendants, all are listed.
C22_CompletionsAreStrictDescendants ==
    trie_ret.op = "citation_search" =>
        LET tokens == split_whitespace(trie_ret.query)
            listed == trie_ret.result.prefix_completions
            below  == { join(path, <<" ">>) : path \in InsertedBelow("citation", tokens) }
        IN  /\ Range(listed) \subseteq below
            /\ join(tokens, <<" ">>) \notin Range(listed)
            /\ Cardinality(Range(listed)) = Len(listed)
            /\ Len(listed) <= 10
            /\ (tokens \in InsertedPaths("citation") /\ Cardinality(below) <= 10)
               => Range(listed) = below

\* A lookup of the blank text listed 10 of the 12 citations of the sub-trie,
\* and the sub-trie has a terminal node with terminal descendants.
C22_Witness ==
    /\ trie_ret.op = "citation_search"
    /\ split_whitespace(trie_ret.query) = <<>>
    /\ Len(trie_ret.result.prefix_completions) = 10
    /\ Cardinality(InsertedBelow("citation", <<>>)) = 12

(***************************************************************************)
(* SpecRank: the end of execute_hybrid_search (sort_by, apply_filters,     *)
(* truncate) on every fused list of up to three cases and every            *)
(* combination of result cap, court filter and date range.                 *)
(***************************************************************************)
RankCourts == {"Supreme Court", "Circuit Court"}
RankDates == {1, 2, 3}
RankWeights == {200, 60}
\* Similarities of semantic results, as the ANN index of spec.md yields them.
RankSimilarities == {100, 80}

RankQueries ==
    { SearchQuery(QName, m, f, d, SearchConfig(2, 50, w, TRUE, TRUE)) :
        m \in {None, Some(1), Some(2)},
        f \in CourtFilters,
        d \in {None, Some(<<1, 2>>), Some(<<2, 3>>)},
        w \in RankWeights }

\* The result execute_hybrid_search builds for case `id`, for every court and
\* decision date the storage may hold for it.
RankResultsOf(id, query) ==
    { SearchResult(CaseMetadata(id, c, d), score[1], score[2], DocRef(id, 0, None)) :
        c \in RankCourts, d \in RankDates,
        score \in {<<query.config.exact_match_weight, "Exact">>}
                  \cup { <<sim, "Semantic">> : sim \in RankSimilarities } }

\* all_results as the two stages leave it: one result per case, the lexical
\* results first, then the semantic results from the nearest on.
FusedShape(l) ==
    \A i, j \in DOMAIN l :
        i < j => /\ l[j].match_type = "Exact" => l[i].match_type = "Exact"
                 /\ (l[i].match_type = "Semantic" /\ l[j].match_type = "Semantic")
                    => l[i].score >= l[j].score

FusedLists(query) ==
    { l \in {<<>>}
          \cup { <<r1>> : r1 \in RankResultsOf(1, query) }
          \cup { <<r1, r2>> : r1 \in RankResultsOf(1, query), r2 \in RankResultsOf(2, query) }
          \cup { <<r1, r2, r3>> : r1 \in RankResultsOf(1, query),
                                  r2 \in RankResultsOf(2, query),
                                  r3 \in RankResultsOf(3, query) } :
        FusedShape(l) }

\* execute_hybrid_search from `all_results.sort_by(..)` to `Ok(all_results)`.
RankFilterTruncate(all_results, query) ==
    /\ call' = [op |-> "rank", all_results |-> all_results, query |-> query]
    /\ ret' = Ok(truncate(apply_filters(sort_by_score(all_results), query),
                          ResultCap(query)))
    /\ trace' = [op |-> "none"]
    /\ UNCHANGED <<trieVars, vectorVars, query_cache, now, config>>

InitRank == TrieInit /\ IdleVector /\ IdleEngine

\* One list is ranked in a behaviour.
NextRank ==
    /\ call.op = "none"
    /\ \E query \in RankQueries : \E all_results \in FusedLists(query) :
          RankFilterTruncate(all_results, query)

SpecRank == InitRank /\ [][NextRank]_vars

\* r passes the court filter and the date-range filter of the query.
PassesFilters(r, query) ==
    /\ IsSome(query.court_filter) => r.case_metadata.court \in Unwrap(query.court_filter)
    /\ IsSome(query.date_range) =>
          /\ Unwrap(query.date_range)[1] <= r.case_metadata.decision_date
          /\ r.case_metadata.decision_date <= Unwrap(query.date_range)[2]

\* The positions of all_results whose result passes the filters.
Passing == { i \in DOMAIN call.all_results : PassesFilters(call.all_results[i], call.query) }

\* How many passing results come before position i in the ranking: those of
\* a higher score, and those of the same score that precede it.
Outranking(i) ==
    Cardinality({ j \in Passing :
        \/ call.all_results[j].score > call.all_results[i].score
        \/ call.all_results[j].score = call.all_results[i].score /\ j < i })

Smaller(a, b) == IF a < b THEN a ELSE b

C24_FiltersBeforeTruncation ==
    call.op = "rank" =>
        /\ \A k \in DOMAIN ret.value : PassesFilters(ret.value[k], call.query)
        /\ \A i \in Passing :
              Outranking(i) < ResultCap(call.query) => call.all_results[i] \in Range(ret.value)
        /\ \A i \in DOMAIN call.all_results :
              LET r == call.all_results[i]
              IN  (/\ IsSome(call.query.date_range)
                   /\ r.case_metadata.decision_date \in
                        {Unwrap(call.query.date_range)[1], Unwrap(call.query.date_range)[2]}
                   /\ IsSome(call.query.court_filter) =>
                        r.case_metadata.court \in Unwrap(call.query.court_filter)
                   /\ Cardinality(Passing) <= ResultCap(call.query))
                  => r \in Range(ret.value)

\* With a cap of 1 and three lexical results, the first was removed by the
\* court filter and the second by the date range, and the third, whose
\* decision date is the end of the range, was returned.
C24_Witness ==
    /\ call.op = "rank"
    /\ ResultCap(call.query) = 1
    /\ IsSome(call.query.court_filter) /\ IsSome(call.query.date_range)
    /\ Len(call.all_results) = 3
    /\ \A i \in DOMAIN call.all_results : call.all_results[i].match_type = "Exact"
    /\ call.all_results[1].case_metadata.court \notin Unwrap(call.query.court_filter)
    /\ call.all_results[2].case_metadata.court \in Unwrap(call.query.court_filter)
    /\ call.all_results[2].case_metadata.decision_date > Unwrap(call.query.date_range)[2]
    /\ call.all_results[3].case_metadata.decision_date = Unwrap(call.query.date_range)[2]
    /\ ret.value = <<call.all_results[3]>>

(***************************************************************************)
(* SpecStages: the engine without a query cache, over both vector indexes, *)
(* with cases that have stored metadata (1) and that have none (3), and    *)
(* queries that enable either stage and set config.max_results to 1 or 2.  *)
(***************************************************************************)
StageQueries ==
    { SearchQuery(QName, None, None, None, SearchConfig(c, 50, 200, sem, pre)) :
        c \in {1, 2}, sem \in BOOLEAN, pre \in BOOLEAN }

StageCaseIds == {1, 3}

InitStages == TrieInit /\ VectorInit /\ EngineInit(FusionConfigs)

StageInsertions ==
    \/ \E id \in StageCaseIds :
          Insertion(InsertCaseName(<<"a", " ", "b">>, id) /\ UNCHANGED vectorVars)
    \/ \E id \in StageCaseIds :
          Insertion(AddDocument(DocRef(id, 0, None), <<"a", " ", "b">>))

NextStages ==
    \/ StageInsertions
    \/ \E q \in StageQueries : SearchWithParams(q)

SpecStages == InitStages /\ [][NextStages]_vars

\* The call ran the semantic stage: it took the vector index lock.
SemanticStageExecuted == "vector_index.write" \in trace.acquired

\* C25: the semantic stage (query embedding plus ANN search) is executed if
\* and only if enable_semantic is true and the lexical stage emitted fewer
\* than the configured max results; otherwise the embedding provider is not
\* invoked and the vector index lock is not acquired for that query.
C25_SemanticStageGate ==
    (call.op = "search_with_params" /\ trace.hybrid) =>
        /\ SemanticStageExecuted
           <=> (/\ call.query.config.enable_semantic
                /\ Cardinality(LexicalCases) < call.query.config.max_results)
        /\ ~SemanticStageExecuted => trace.encoded = 0 /\ trace.semantic = <<>>
        /\ SemanticStageExecuted =>
              call.query.query \in DOMAIN vector_cache

\* With enable_semantic true and config.max_results 1, the lexical stage
\* emitted one result and the semantic stage was not run, although the
\* vector index holds a document.
C25_Witness ==
    /\ call.op = "search_with_params"
    /\ trace.hybrid
    /\ call.query.config.enable_semantic
    /\ call.query.config.max_results = 1
    /\ Cardinality(LexicalCases) = 1
    /\ ~SemanticStageExecuted
    /\ DOMAIN insert_log.document # {}

\* The case ids of the DocRefs the two stages returned.
StageDocRefCases ==
    { trace.lexical[i].case_id : i \in DOMAIN trace.lexical }
    \cup { trace.semantic[i].doc_ref.case_id : i \in DOMAIN trace.semantic }

LockCallers == {1, 2, 3}

LockNames == {"trie_index", "vector_index", "query_cache"}

FairLock_new == [readers |-> {}, writer |-> {}, waiters |-> <<>>]

\* lock.read() / lock.write() is called: the request joins the queue.
FairLock_request(lock, t, write) ==
    [lock EXCEPT !.waiters = Append(@, [task |-> t, write |-> write])]

\* The request at the head of the queue of task t can be granted.
FairLock_grantable(lock, t) ==
    /\ lock.waiters # <<>>
    /\ Head(lock.waiters).task = t
    /\ lock.writer = {}
    /\ Head(lock.waiters).write => lock.readers = {}

FairLock_grant(lock) ==
    LET w == Head(lock.waiters)
    IN  [readers |-> IF w.write THEN lock.readers ELSE lock.readers \cup {w.task},
         writer  |-> IF w.write THEN {w.task} ELSE lock.writer,
         waiters |-> Tail(lock.waiters)]

\* A guard is dropped.
FairLock_release(lock, t) ==
    [lock EXCEPT !.readers = @ \ {t}, !.writer = @ \ {t}]

FairLock_holds(lock, t) == t \in lock.readers \cup lock.writer

FairLock_waits(lock, t) ==
    \E i \in 1..Len(lock.waiters) : lock.waiters[i].task = t

\* The operations of SearchEngine that take a lock.
LockOps == {"search_with_params", "health_check", "get_stats"}

\* The lock acquisitions of src/src/search.rs: the lock, its mode, the
\* guards dropped when the code that follows the acquisition has run, and
\* the acquisitions that may follow ("return": the call returns).
\*   get_cached_result   let cache = self.query_cache.read().await; on a hit
\*                       the call returns, on a miss validate_query returns
\*                       an error or stage 1 or stage 2 or the store follows
\*   search_trie         let trie = self.trie_index.read().await
\*   search_vector       let mut vector = self.vector_index.write().await
\*   cache_results       let mut cache = self.query_cache.write().await
\*   health_check.trie   let _trie = self.trie_index.read().await
\*   health_check.vector let _vector = self.vector_index.read().await,
\*                       storage.health_check, both guards dropped
\*   get_stats.vector    let vector = self.vector_index.read().await
\*   get_stats.cache     let cache = self.query_cache.read().await, the stats
\*                       are built, both guards dropped
LockSiteOf(lock, write, drops, next) ==
    [lock |-> lock, write |-> write, drops |-> drops, next |-> next]

\* The guard of get_cached_result outlives the function.
get_cached_result_KeepsGuard ==
    LockSiteOf("query_cache", FALSE, {},
               {"return", "search_trie", "search_vector", "cache_results"})

get_cached_result_site ==
    LockSiteOf("query_cache", FALSE, {"query_cache"},
               {"return", "search_trie", "search_vector", "cache_results"})

LockSites ==
    [ get_cached_result |-> get_cached_result_site,
      search_trie |-> LockSiteOf("trie_index", FALSE, {"trie_index"},
                                 {"search_vector", "cache_results"}),
      search_vector |-> LockSiteOf("vector_index", TRUE, {"vector_index"},
                                   {"cache_results"}),
      cache_results |-> LockSiteOf("query_cache", TRUE, {"query_cache"}, {"return"}),
      health_check_trie |-> LockSiteOf("trie_index", FALSE, {}, {"health_check_vector"}),
      health_check_vector |-> LockSiteOf("vector_index", FALSE,
                                         {"trie_index", "vector_index"}, {"return"}),
      get_stats_vector |-> LockSiteOf("vector_index", FALSE, {}, {"get_stats_cache"}),
      get_stats_cache |-> LockSiteOf("query_cache", FALSE,
                                     {"vector_index", "query_cache"}, {"return"}) ]

\* The first acquisition of an operation (the query cache is enabled).
FirstSite(op) ==
    CASE op = "search_with_params" -> "get_cached_result"
      [] op = "health_check" -> "health_check_trie"
      [] op = "get_stats" -> "get_stats_vector"

IdleCaller == [op |-> "none", site |-> "none", phase |-> "idle"]

\* SearchEngine::new: three free locks; no caller has entered.
InitLocks ==
    /\ TrieInit
    /\ IdleVector
    /\ config \in ConcConfigs
    /\ query_cache = QueryCache_new(config.query_cache_size)
    /\ now = 0
    /\ call = [t \in LockCallers |-> IdleCaller]
    /\ ret = [t \in LockCallers |-> [op |-> "none"]]
    /\ trace = [l \in LockNames |-> FairLock_new]

locksFixed == <<trieVars, vectorVars, query_cache, now, config>>

\* Caller t enters an operation and stands before its first acquisition.
Enter(t, op) ==
    /\ call[t].phase = "idle"
    /\ call' = [call EXCEPT ![t] = [op |-> op, site |-> FirstSite(op), phase |-> "call"]]
    /\ ret' = [ret EXCEPT ![t] = [op |-> "none"]]
    /\ UNCHANGED <<locksFixed, trace>>

\* .read().await / .write().await is called.
Request(t) ==
    /\ call[t].phase = "call"
    /\ LET site == LockSites[call[t].site]
       IN  trace' = [trace EXCEPT ![site.lock] = FairLock_request(@, t, site.write)]
    /\ call' = [call EXCEPT ![t].phase = "wait"]
    /\ UNCHANGED <<locksFixed, ret>>

\* The lock is granted to the request of t.
Granted(t) ==
    /\ call[t].phase = "wait"
    /\ LET site == LockSites[call[t].site]
       IN  /\ FairLock_grantable(trace[site.lock], t)
           /\ trace' = [trace EXCEPT ![site.lock] = FairLock_grant(@)]
    /\ call' = [call EXCEPT ![t].phase = "hold"]
    /\ UNCHANGED <<locksFixed, ret>>

\* The code after the acquisition runs, its guards are dropped, and the
\* call goes on to its next acquisition or returns.
Proceed(t, next) ==
    /\ call[t].phase = "hold"
    /\ LET site == LockSites[call[t].site]
       IN  /\ next \in site.next
           /\ trace' = [l \in LockNames |->
                           IF l \in site.drops THEN FairLock_release(trace[l], t)
                           ELSE trace[l]]
    /\ IF next = "return"
       THEN /\ call' = [call EXCEPT ![t] = IdleCaller]
            /\ ret' = [ret EXCEPT ![t] = [op |-> call[t].op]]
       ELSE /\ call' = [call EXCEPT ![t].site = next, ![t].phase = "call"]
            /\ UNCHANGED ret
    /\ UNCHANGED locksFixed

LockNexts == {"return"} \cup DOMAIN LockSites

StepOf(t) == Request(t) \/ Granted(t) \/ \E next \in LockNexts : Proceed(t, next)

NextLocks ==
    \/ \E t \in LockCallers, op \in LockOps : Enter(t, op)
    \/ \E t \in LockCallers : Request(t)
    \/ \E t \in LockCallers : Granted(t)
    \/ \E t \in LockCallers, next \in LockNexts : Proceed(t, next)

SpecLocks == InitLocks /\ [][NextLocks]_vars

\* The runtime polls every task that can run, and the fair lock grants the
\* request at the head of its queue once the lock is compatible with it.
SpecLocksFair == SpecLocks /\ \A t \in LockCallers : WF_vars(StepOf(t))

HeldBy(t) == { l \in LockNames : FairLock_holds(trace[l], t) }
AwaitedBy(t) == { l \in LockNames : FairLock_waits(trace[l], t) }

\* trie_index before vector_index before query_cache.
LockRank(l) ==
    CASE l = "trie_index" -> 1 [] l = "vector_index" -> 2 [] l = "query_cache" -> 3

InCall(t) == call[t].phase # "idle"

NoDeadlock ==
    (\E t \in LockCallers : InCall(t)) => \E t \in LockCallers : ENABLED StepOf(t)

SearchHoldsOneLock ==
    \A t \in LockCallers :
        call[t].op = "search_with_params" =>
            /\ Cardinality(HeldBy(t)) <= 1
            /\ AwaitedBy(t) # {} => HeldBy(t) = {}

ConsistentOrder ==
    \A t \in LockCallers :
        \A held \in HeldBy(t), awaited \in AwaitedBy(t) :
            LockRank(held) < LockRank(awaited)

(***************************************************************************)
(* C29. In every interleaving of search_with_params, health_check and      *)
(* get_stats calls on one engine, some call in flight can always take a    *)
(* step (no deadlock); a search holds at most one lock and waits for a     *)
(* lock only while it holds none; whoever waits for a lock while holding   *)
(* another holds the earlier one of the order trie, vector index, query    *)
(* cache; and, with fair locks and a fair scheduler, every call returns.   *)
(***************************************************************************)
C29_NoDeadlockAndProgress ==
    /\ [](NoDeadlock /\ SearchHoldsOneLock /\ ConsistentOrder)
    /\ \A t \in LockCallers : InCall(t) ~> ~InCall(t)

\* A chain of waiting: a health_check holds the trie and waits for the
\* vector index behind a search that waits to write it, while a get_stats
\* holds the vector index and waits for the query cache.
C29_Witness ==
    \E s, h, g \in LockCallers :
        /\ call[s].op = "search_with_params" /\ call[s].site = "search_vector"
        /\ call[h].op = "health_check" /\ call[g].op = "get_stats"
        /\ HeldBy(h) = {"trie_index"} /\ AwaitedBy(h) = {"vector_index"}
        /\ HeldBy(g) = {"vector_index"} /\ AwaitedBy(g) = {"query_cache"}
        /\ Len(trace.vector_index.waiters) = 2
        /\ Head(trace.vector_index.waiters).task = s
        /\ HeldBy(s) = {}

(***************************************************************************)
(* SpecShutdown: IngestionPipeline (src/src/ingestion/pipeline.rs) seen at *)
(* its processing semaphore: process_batch calls of three tasks and one    *)
(* shutdown call.  tokio::sync::Semaphore serves requests in the order of  *)
(* arrival.                                                                *)
(***************************************************************************)
BatchTasks == {"batch1", "batch2", "batch3"}
ShutdownTask == "shutdown"

\* Semaphore::new(config.max_concurrent_jobs)
Semaphore_new(permits) == [permits |-> permits, waiters |-> <<>>]

Semaphore_available_permits(sem) == sem.permits

\* acquire / acquire_many(n) completes at once when nobody waits and n
\* permits are available.
Semaphore_acquires_now(sem, n) == sem.waiters = <<>> /\ sem.permits >= n

Semaphore_take(sem, n) == [sem EXCEPT !.permits = @ - n]

Semaphore_enqueue(sem, t, n) ==
    [sem EXCEPT !.waiters = Append(@, [task |-> t, needed |-> n])]

\* The request at the head of the queue is served.
Semaphore_grantable(sem, t) ==
    /\ sem.waiters # <<>>
    /\ Head(sem.waiters).task = t
    /\ sem.permits >= Head(sem.waiters).needed

Semaphore_grant(sem) ==
    [permits |-> sem.permits - Head(sem.waiters).needed, waiters |-> Tail(sem.waiters)]

\* A SemaphorePermit of n permits is dropped.
Semaphore_release(sem, n) == [sem EXCEPT !.permits = @ + n]

\* IngestionPipeline::new: all permits are available, no batch is being
\* processed, shutdown has not been called.
InitShutdown ==
    /\ TrieInit
    /\ IdleVector
    /\ query_cache = [cache |-> EmptyMap, max_size |-> 0]
    /\ now = 0
    /\ config = [max_concurrent_jobs |-> MaxConcurrentJobs]
    /\ call = [batch |-> [t \in BatchTasks |-> "idle"],
               shutdown |-> [pc |-> "idle", permits_needed |-> 0]]
    /\ ret = [flushed |-> FALSE, processing_at_flush |-> {}]
    /\ trace = Semaphore_new(config.max_concurrent_jobs)

shutdownFixed == <<trieVars, vectorVars, query_cache, now, config>>

BatchPhase(t, phase) == call' = [call EXCEPT !.batch[t] = phase]
ShutdownPc(pc) == call' = [call EXCEPT !.shutdown.pc = pc]

\* process_batch: let _permit = self.processing_semaphore.acquire().await
ProcessBatchAcquire(t) ==
    /\ call.batch[t] = "idle"
    /\ IF Semaphore_acquires_now(trace, 1)
       THEN trace' = Semaphore_take(trace, 1) /\ BatchPhase(t, "processing")
       ELSE trace' = Semaphore_enqueue(trace, t, 1) /\ BatchPhase(t, "waiting")
    /\ UNCHANGED <<shutdownFixed, ret>>

\* The waiting acquire of a batch completes.
ProcessBatchGranted(t) ==
    /\ call.batch[t] = "waiting"
    /\ Semaphore_grantable(trace, t)
    /\ trace' = Semaphore_grant(trace)
    /\ BatchPhase(t, "processing")
    /\ UNCHANGED <<shutdownFixed, ret>>

\* The cases of the batch are processed, Ok(ProcessingResult) is returned
\* and _permit is dropped.
ProcessBatchReturn(t) ==
    /\ call.batch[t] = "processing"
    /\ trace' = Semaphore_release(trace, 1)
    /\ BatchPhase(t, "idle")
    /\ UNCHANGED <<shutdownFixed, ret>>

\* shutdown: let permits_needed = self.processing_semaphore.available_permits()
ShutdownAvailablePermits ==
    /\ call.shutdown.pc = "idle"
    /\ call' = [call EXCEPT !.shutdown = [pc |-> "acquire_many",
                    permits_needed |-> Semaphore_available_permits(trace)]]
    /\ UNCHANGED <<shutdownFixed, ret, trace>>

\* let _permits = self.processing_semaphore.acquire_many(permits_needed as u32).await
ShutdownAcquireMany ==
    /\ call.shutdown.pc = "acquire_many"
    /\ LET n == call.shutdown.permits_needed
       IN  IF Semaphore_acquires_now(trace, n)
           THEN trace' = Semaphore_take(trace, n) /\ ShutdownPc("flush")
           ELSE trace' = Semaphore_enqueue(trace, ShutdownTask, n) /\ ShutdownPc("waiting")
    /\ UNCHANGED <<shutdownFixed, ret>>

ShutdownGranted ==
    /\ call.shutdown.pc = "waiting"
    /\ Semaphore_grantable(trace, ShutdownTask)
    /\ trace' = Semaphore_grant(trace)
    /\ ShutdownPc("flush")
    /\ UNCHANGED <<shutdownFixed, ret>>

Processing == { t \in BatchTasks : call.batch[t] = "processing" }

\* self.cache_manager.flush().await?
ShutdownFlush ==
    /\ call.shutdown.pc = "flush"
    /\ ret' = [flushed |-> TRUE, processing_at_flush |-> Processing]
    /\ ShutdownPc("stats")
    /\ UNCHANGED <<shutdownFixed, trace>>

\* The final statistics are logged, Ok(()) is returned and _permits is
\* dropped.
ShutdownReturn ==
    /\ call.shutdown.pc = "stats"
    /\ trace' = Semaphore_release(trace, call.shutdown.permits_needed)
    /\ ShutdownPc("returned")
    /\ UNCHANGED <<shutdownFixed, ret>>

NextShutdown ==
    \/ \E t \in BatchTasks : ProcessBatchAcquire(t)
    \/ \E t \in BatchTasks : ProcessBatchGranted(t)
    \/ \E t \in BatchTasks : ProcessBatchReturn(t)
    \/ ShutdownAvailablePermits
    \/ ShutdownAcquireMany
    \/ ShutdownGranted
    \/ ShutdownFlush
    \/ ShutdownReturn

SpecShutdown == InitShutdown /\ [][NextShutdown]_vars

(***************************************************************************)
(* C30 as claimed: shutdown waits for all processing jobs to complete.     *)
(* From the completion of its acquire_many to its return (the flush of the *)
(* cache included) no process_batch call holds a permit of the processing  *)
(* semaphore.                                                              *)
(***************************************************************************)
C30_ShutdownWaitsForJobs ==
    /\ call.shutdown.pc \in {"flush", "stats"} => Processing = {}
    /\ ret.flushed => ret.processing_at_flush = {}

=============================================================================
